---------------------------- MODULE Spec2Model ----------------------------
(***************************************************************************)
(* A model of the canvas helper package.                                   *)
(*                                                                         *)
(*   - the schedule generator of section.py (Header.next_week, data_iter,  *)
(*     read_section), specifications SpecSchedule and FairSchedule;        *)
(*   - the persistent maps of saveddict.py and coursedata.py (SavedDict,   *)
(*     SavedCourseData) over a small file system, specification Spec;      *)
(*     SavedDict.update with nested dicts, specification SpecUpdate;       *)
(*     a SavedDict whose default holds a dict, specification SpecDefault;  *)
(*   - the scoped cache of canvasfs.py (LazyDict, CanvasFS, canvasfs,      *)
(*     update_canvasfs, result_to_canvasfs), specification SpecCanvasFS;   *)
(*   - both kinds of map over storage files that hold any JSON document,   *)
(*     specification SpecForeign; a program that uses a persistent map     *)
(*     and with-blocks together, specification SpecStorage;                *)
(*   - the listings get_canvas_assignments and get_canvas_files of         *)
(*     canvasfs.py, specification SpecListing;                             *)
(*   - Section.get and Section.__getitem__ of section.py, specification    *)
(*     SpecSection;                                                        *)
(*   - run_cmd_on_text and pandoc_with_options of pandoc.py,               *)
(*     specification SpecPandoc;                                           *)
(*   - confirm_delete and del_assignments of course.py, specification      *)
(*     SpecDelete.                                                         *)
(*                                                                         *)
(* Dates are day numbers (datetime.date ordinals), so that adding          *)
(* timedelta(days=7) is adding 7.                                          *)
(***************************************************************************)
EXTENDS Integers, FiniteSets, Sequences, TLC

VARIABLES
    \* ---- section.py
    header,     \* the Header read from the first YAML document
    lst,        \* the override records read_section has not consumed yet
    pc,         \* where control is: "zip", "test", "next_week", "done"
    gstate,     \* the data_iter generator: "new", "suspended", "finished"
    date,       \* data_iter's local date
    serial,     \* data_iter's local serial
    week,       \* data_iter's local week
    nw_date,    \* Header.next_week's local date
    nw_week,    \* Header.next_week's local week
    sections,   \* the Sections read_section has built so far
    \* ---- saveddict.py, coursedata.py
    scenario,   \* which objects the program has constructed
    disk,       \* the content of each storage file, or NoFile
    needinit,   \* SavedDict._needinit of each object
    entries,    \* the dict content of each object
    updaters,   \* SavedCourseData._updaters: the names with an updater
    saved,      \* history: per file, the entries the last save wrote
    last,       \* history: the last call, told apart as the properties need
    heap,       \* the dict objects the caller holds and passes by reference
    \* ---- canvasfs.py
    usage,      \* how the program uses canvasfs: "sequence" or "nesting"
    cwd,        \* os.getcwd()
    cfs,        \* the global list cfs: the CanvasFS instances, by number
    scopes,     \* the open with-blocks: saved cwd, root, instance __dict__,
                \* and, as history, the list cfs at entry
    cdisk,      \* per directory and namespace the file content, or NoFile
    clast,      \* history: the last call and how it ended
    \* ---- canvasfs.py: the listings of the remote system
    job,        \* the enumeration that runs: "assignments", "files", "none"
    remote,     \* what the remote system lists: assignments, or folders
    pos,        \* the index of the item the loop comes to next
    lru,        \* the lru_cache of group names: group ids, oldest use first
    asked,      \* history: the group ids looked up, the folders listed
    built,      \* the dict the enumeration has built so far
    \* ---- section.py: the attributes of a Section
    hattrs,     \* the instance __dict__ of the Header
    sect,       \* the Section: its instance __dict__ and, as history, the
                \* override record it was built from; NoSection before
    got,        \* history: the last lookup and its result
    \* ---- pandoc.py
    proc,       \* the finished converter process, or NoProcess
    plog,       \* the records the last call logged
    pret,       \* what the last call returned or raised
    \* ---- course.py: del_assignments
    exs,        \* the assignments the remote system lists for the title
    gen,        \* the generator iter_fn: "new", "suspended", "finished"
    at,         \* the index in exs of the assignment iter_fn is at
    prompt,     \* w0.description: the assignment the prompt names, or NoPrompt
    closed,     \* w0.close() was called
    answers,    \* history: per click sent to iter_fn, the prompt and the value
    deleted,    \* history: the ids x.delete() was called for, in order
    late        \* history: the clicks that came after iter_fn had ended

svars == <<header, lst, pc, gstate, date, serial, week, nw_date, nw_week, sections>>

mvars == <<scenario, disk, needinit, entries, updaters, saved, last, heap>>

cvars == <<usage, cwd, cfs, scopes, cdisk, clast>>

lvars == <<job, remote, pos, lru, asked, built>>

gvars == <<hattrs, sect, got>>

pvars == <<proc, plog, pret>>

dvars == <<exs, gen, at, prompt, closed, answers, deleted, late>>

ovars == <<lvars, gvars, pvars, dvars>>

vars == <<svars, mvars, cvars, ovars>>

-----------------------------------------------------------------------------
(* Bounds of the model.                                                    *)

\* break dates and last_section lie within this many weeks of first_section
MaxWeeks == 3
\* a finite YAML file holds at most this many override records
MaxRec == 3
\* remote identifiers are 1..MaxId
MaxId == 2
\* canvasfs with-blocks are nested at most this deep
MaxDepth == 2
\* a process writes at most this many bytes to each of its streams
MaxBytes == 2
\* the remote system lists at most this many assignments for a title
MaxExs == 3
\* at most this many clicks arrive after the last prompt
MaxLate == 2

(* Program constants.                                                      *)

\* datetime.timedelta(days=7)
Days7 == 7

-----------------------------------------------------------------------------
(* saveddict.py, coursedata.py: the persistent maps                        *)

\* the logical paths used as keys
Keys == {"/a/b.pdf", "/c"}

\* remote identifiers, as the Python values stored in the maps
Ids == 1..MaxId
Values == {[int |-> n] : n \in Ids}

\* the dicts over Keys
Maps == UNION {[D -> Values] : D \in SUBSET Keys}
EmptyMap == [k \in {} |-> [int |-> 0]]

\* the objects of the two scenarios:
\*   "saveddict":  a = SavedDict("latex_formats.json", default=...) and
\*                 b = SavedDict("latex_formats.json") of saveddict.py
\*   "coursedata": SavedCourseData(files=".files.json", others=".others.json"),
\*                 whose members are SavedDicts of coursedata.py
SDObjs == {"a", "b"}
Members == {"files", "others"}
Objs == SDObjs \cup Members
Scenarios == {"saveddict", "coursedata"}
\*   "nested":     as "saveddict", the default of a holding a dict
Live(i) == IF scenario = "coursedata" THEN i \in Members ELSE i \in SDObjs

\* SavedDict._filename
Filename(i) ==
    CASE i \in SDObjs -> "latex_formats.json"
      [] i = "files" -> ".files.json"
      [] i = "others" -> ".others.json"
Paths == {Filename(i) : i \in Objs}

\* SavedDict._default: {} unless a default is given
\* (in the scenario "nested" the default of a is {"/c": D}, D the dict at
\* address "D" of the heap)
Default(i) ==
    IF i = "a"
    THEN (IF scenario = "nested"
          THEN [k \in {"/c"} |-> [ref |-> "D"]]
          ELSE [k \in {"/c"} |-> [int |-> 1]])
    ELSE EmptyMap

\* the logical paths and identifiers each object is used with: the second
\* member of the SavedCourseData is kept small
KeysOf(i) == IF i = "others" THEN {"/c"} ELSE Keys
ValuesOf(i) == IF i = "others" THEN {[int |-> 1]} ELSE Values

\* the dicts handed to load(data), update(name=data) or returned by an
\* updater for object i: listings of the remote system
Snapshots(i) == UNION {[D -> {[int |-> 1]}] : D \in SUBSET KeysOf(i)}

\* the names SavedCourseData.update may be given
KwNames == Members \cup {"quizzes"}
SnapshotsOf(n) == IF n \in Members THEN Snapshots(n) ELSE {EmptyMap}

\* file contents: NoFile when os.path.exists is false, else a JSON document
NoFile == [absent |-> TRUE]

\* a Python value is an int, [int |-> n], or a dict: one written in place,
\* [map |-> m], or one the caller holds in a variable, [ref |-> address],
\* whose content is heap[address]
IsDictValue(v) == "map" \in DOMAIN v \/ "ref" \in DOMAIN v
Content(h, v) == IF "ref" \in DOMAIN v THEN h[v.ref] ELSE v.map

\* json.dump of a dict with string keys: an object, a set of members
JsonNumber(v) == [number |-> v.int]
RECURSIVE JsonDump(_)
JsonValue(v) ==
    IF IsDictValue(v) THEN JsonDump(Content(heap, v)) ELSE JsonNumber(v)
JsonDump(m) == [object |-> {<<k, JsonValue(m[k])>> : k \in DOMAIN m}]

\* json.load of a document: every object becomes a new dict
PyInt(j) == [int |-> j.number]
RECURSIVE JsonLoad(_)
PyValue(j) == IF "object" \in DOMAIN j THEN [map |-> JsonLoad(j)] ELSE PyInt(j)
JsonLoad(doc) ==
    [k \in {p[1] : p \in doc.object} |->
        PyValue((CHOOSE p \in doc.object : p[1] = k)[2])]

\* dict.__init__(data) on a dict that holds cur: the items of data are added
\* to, or replace, those of cur; nothing is removed
DictInit(cur, data) ==
    [k \in DOMAIN cur \cup DOMAIN data |->
        IF k \in DOMAIN data THEN data[k] ELSE cur[k]]

\* dict.__setitem__
DictSet(cur, k, v) ==
    [x \in DOMAIN cur \cup {k} |-> IF x = k THEN v ELSE cur[x]]

\* SavedDict.load, data is None: the file if it exists, else the default
DefaultOnly(i) == Default(i)
FileData(i) ==
    IF disk[Filename(i)] # NoFile
    THEN JsonLoad(disk[Filename(i)])
    ELSE Default(i)

\* what a call returns or raises
KeyError == [err |-> "KeyError"]
Returned(v) == [val |-> v]

\* the last call: save() of an object or of the SavedCourseData ("scd"),
\* a set on an object that was unloaded, or any other call
SaveOf(i) == [op |-> "save", obj |-> i]
\* save() of the loaded object i right after save() of the loaded object j
\* over the same path
SaveAfterSave(i, j) == [op |-> "save", obj |-> i, after |-> j]
SetUnloaded(i, k, v) == [op |-> "set", obj |-> i, key |-> k, val |-> v]
\* update_from_canvas in which an updater raised: the names whose updater
\* raised, the names skipped
UfcOf(raised, skipped) == [op |-> "ufc", raised |-> raised, skipped |-> skipped]
Other == [op |-> "other", obj |-> "-"]

\* the SavedDict classes: coursedata.py's has no __setitem__ of its own
HasSetItem(i) == i \in SDObjs

\* SavedDict.load(data) on object i: the content and flag afterwards
LoadedEntries(i, data) == DictInit(entries[i], data)

\* the implicit load of __getitem__ / __setitem__ / update
EnsureLoaded(i) ==
    IF needinit[i] THEN LoadedEntries(i, FileData(i)) ELSE entries[i]

\* SavedDict.save: whether the file is written
SaveWritesAlways(i) == TRUE
SaveWrites(i) == ~needinit[i]

\* SavedDict.__getitem__: what it returns or raises
GetResult(i, k) ==
    LET e == EnsureLoaded(i) IN
      IF k \in DOMAIN e THEN Returned(e[k]) ELSE KeyError

\* SavedDict.__getitem__: its effect on the object
GetItem(i, k) ==
    /\ Live(i)
    /\ LET e == EnsureLoaded(i) IN
         /\ entries' = [entries EXCEPT ![i] = e]
         /\ needinit' = [needinit EXCEPT ![i] = FALSE]
    /\ last' = Other
    /\ UNCHANGED <<scenario, disk, updaters, saved, heap, svars, cvars, ovars>>

\* SavedDict.__setitem__ (saveddict.py), dict.__setitem__ (coursedata.py)
SetItem(i, k, v) ==
    /\ Live(i)
    /\ IF HasSetItem(i)
       THEN /\ entries' = [entries EXCEPT ![i] = DictSet(EnsureLoaded(i), k, v)]
            /\ needinit' = [needinit EXCEPT ![i] = FALSE]
       ELSE /\ entries' = [entries EXCEPT ![i] = DictSet(entries[i], k, v)]
            /\ UNCHANGED needinit
    /\ last' = IF needinit[i] THEN SetUnloaded(i, k, v) ELSE Other
    /\ UNCHANGED <<scenario, disk, updaters, saved, heap, svars, cvars, ovars>>

\* SavedDict.load(), data is None: the files after open(self._filename),
\* which opens for reading, and only a file that exists
DiskAfterOpenCreating(i) ==
    [disk EXCEPT ![Filename(i)] =
        IF @ = NoFile THEN JsonDump(Default(i)) ELSE @]
DiskAfterOpen(i) == disk

\* SavedDict.load(), data is None
Load(i) ==
    /\ Live(i)
    /\ disk' = DiskAfterOpen(i)
    /\ entries' = [entries EXCEPT ![i] = LoadedEntries(i, FileData(i))]
    /\ needinit' = [needinit EXCEPT ![i] = FALSE]
    /\ last' = Other
    /\ UNCHANGED <<scenario, updaters, saved, heap, svars, cvars, ovars>>

\* SavedDict.load(data), data a dict
LoadData(i, data) ==
    /\ Live(i)
    /\ entries' = [entries EXCEPT ![i] = LoadedEntries(i, data)]
    /\ needinit' = [needinit EXCEPT ![i] = FALSE]
    /\ last' = Other
    /\ UNCHANGED <<scenario, disk, updaters, saved, heap, svars, cvars, ovars>>

\* the files after save() of each object of S, and what they were written from
DiskAfterSaveMerging(S) ==
    [p \in Paths |->
        IF \E i \in S : Filename(i) = p /\ SaveWrites(i)
        THEN JsonDump(DictInit(
                 IF disk[p] # NoFile THEN JsonLoad(disk[p]) ELSE EmptyMap,
                 entries[CHOOSE i \in S : Filename(i) = p /\ SaveWrites(i)]))
        ELSE disk[p]]
DiskAfterSave(S) ==
    [p \in Paths |->
        IF \E i \in S : Filename(i) = p /\ SaveWrites(i)
        THEN JsonDump(entries[CHOOSE i \in S : Filename(i) = p /\ SaveWrites(i)])
        ELSE disk[p]]
SavedAfterSave(S) ==
    [p \in Paths |->
        IF \E i \in S : Filename(i) = p /\ SaveWrites(i)
        THEN entries[CHOOSE i \in S : Filename(i) = p /\ SaveWrites(i)]
        ELSE saved[p]]

\* the last call when save() of object i is made
SaveTag(i) ==
    LET J == {j \in Objs \ {i} :
                /\ last.op = "save"
                /\ last.obj = j
                /\ Filename(j) = Filename(i)
                /\ ~needinit[i]
                /\ ~needinit[j]} IN
      IF J # {} THEN SaveAfterSave(i, CHOOSE j \in J : TRUE) ELSE SaveOf(i)

\* SavedDict.save
Save(i) ==
    /\ Live(i)
    /\ disk' = DiskAfterSave({i})
    /\ saved' = SavedAfterSave({i})
    /\ last' = SaveTag(i)
    /\ UNCHANGED <<scenario, needinit, entries, updaters, heap, svars, cvars, ovars>>

\* SavedDict.reset
Reset(i) ==
    /\ Live(i)
    /\ needinit' = [needinit EXCEPT ![i] = TRUE]
    /\ entries' = [entries EXCEPT ![i] = EmptyMap]
    /\ last' = Other
    /\ UNCHANGED <<scenario, disk, updaters, saved, heap, svars, cvars, ovars>>

\* SavedCourseData.save: save() of every member
ScdSave ==
    /\ scenario = "coursedata"
    /\ disk' = DiskAfterSave(Members)
    /\ saved' = SavedAfterSave(Members)
    /\ last' = SaveOf("scd")
    /\ UNCHANGED <<scenario, needinit, entries, updaters, heap, svars, cvars, ovars>>

\* SavedCourseData.reset: reset() of every member
ScdReset ==
    /\ scenario = "coursedata"
    /\ needinit' = [i \in Objs |-> IF i \in Members THEN TRUE ELSE needinit[i]]
    /\ entries' = [i \in Objs |-> IF i \in Members THEN EmptyMap ELSE entries[i]]
    /\ last' = Other
    /\ UNCHANGED <<scenario, disk, updaters, saved, heap, svars, cvars, ovars>>

\* a keyword value that is no dict
NotADict == [notdict |-> TRUE]
IsDict(d) == "notdict" \notin DOMAIN d

\* SavedCourseData.update(**kwargs): kwargs maps names to values
ScdUpdate(kwargs) ==
    /\ scenario = "coursedata"
    /\ LET hit(i) == i \in Members /\ i \in DOMAIN kwargs /\ IsDict(kwargs[i]) IN
         /\ entries' = [i \in Objs |->
                          IF hit(i) THEN LoadedEntries(i, kwargs[i]) ELSE entries[i]]
         /\ needinit' = [i \in Objs |-> IF hit(i) THEN FALSE ELSE needinit[i]]
    /\ last' = Other
    /\ UNCHANGED <<scenario, disk, updaters, saved, heap, svars, cvars, ovars>>

\* SavedCourseData.register_updater(name, updater)
RegisterUpdater(name) ==
    /\ scenario = "coursedata"
    /\ updaters' = updaters \cup {name}
    /\ last' = Other
    /\ UNCHANGED <<scenario, disk, needinit, entries, saved, heap, svars, cvars, ovars>>

\* what calling an updater may do: return a dict, return None, or raise
\* (returning a value dict.__init__ rejects raises inside the same try)
ReturnsNone == [returnsnone |-> TRUE]
Raises == [raises |-> TRUE]
Outcomes(i) == Snapshots(i) \cup {ReturnsNone, Raises}
ReturnsDict(o) == "returnsnone" \notin DOMAIN o /\ "raises" \notin DOMAIN o

\* SavedCourseData.update_from_canvas(course): the names it logs a warning
\* for; out[name] is what the updater of name does when it is called
WarningsUnregisteredOnly(out) == {i \in Members : i \notin updaters}
Warnings(out) ==
    {i \in Members : ~(i \in updaters /\ ReturnsDict(out[i]))}

\* SavedCourseData._fields: the member names, sorted
Fields == <<"files", "others">>
FieldIndex(i) == CHOOSE n \in 1..Len(Fields) : Fields[n] = i

\* the try ... except Exception around the call of an updater and load(data)
CaughtNever(o) == FALSE
Caught(o) == "raises" \in DOMAIN o

\* the registered updater of i raises
UpdaterRaises(i, out) == i \in updaters /\ "raises" \in DOMAIN out[i]

\* the loop of update_from_canvas gets as far as member i: no exception of
\* an earlier member left the loop
Reached(i, out) ==
    \A j \in Members :
        (FieldIndex(j) < FieldIndex(i) /\ UpdaterRaises(j, out)) => Caught(out[j])

\* what update_from_canvas itself returns or raises
UfcResult(out) ==
    IF \E i \in Members : UpdaterRaises(i, out) /\ ~Caught(out[i])
    THEN Raises
    ELSE ReturnsNone

\* update_from_canvas calls ldict.load(data) for member i
UfcLoads(i, out) ==
    i \in Members /\ i \in updaters /\ ReturnsDict(out[i]) /\ Reached(i, out)

\* the members after update_from_canvas
UfcEntries(out) ==
    [i \in Objs |->
        IF UfcLoads(i, out) THEN LoadedEntries(i, out[i]) ELSE entries[i]]
UfcNeedinit(out) ==
    [i \in Objs |-> IF UfcLoads(i, out) THEN FALSE ELSE needinit[i]]

\* SavedCourseData.update_from_canvas(course): its effect on the members
UpdateFromCanvas(out) ==
    /\ scenario = "coursedata"
    /\ entries' = UfcEntries(out)
    /\ needinit' = UfcNeedinit(out)
    /\ last' = LET raised == {i \in Members : UpdaterRaises(i, out)} IN
                 IF raised = {} THEN Other ELSE UfcOf(raised, Warnings(out))
    /\ UNCHANGED <<scenario, disk, updaters, saved, heap, svars, cvars, ovars>>

\* ---- SavedDict.update and rec_update of saveddict.py

\* the caller's variable X = {"x": 1}, and the dict D = {"x": 1} inside
\* the default of the scenario "nested"
Addrs == {"X", "D"}
RefX == [ref |-> "X"]
HeapInit == [a \in Addrs |-> [k \in {"x"} |-> [int |-> 1]]]

\* other.items() of the dicts handed to update, in the order of the literal
OneX(n) == [k \in {"x"} |-> [int |-> n]]
OneY == [k \in {"y"} |-> [int |-> MaxId]]
Others ==
    {<<>>}
    \cup {<< <<"/a/b.pdf", [map |-> OneX(n)]>> >> : n \in Ids}
    \cup {<< <<k, [map |-> OneY]>> >> : k \in Keys}
    \cup {<< <<"/a/b.pdf", [int |-> MaxId]>> >>}
    \cup {<< <<k, RefX>> >> : k \in Keys}
    \cup {<< <<"/a/b.pdf", RefX>>, <<"/c", RefX>> >>}

\* dict.items() of a dict no other reference leads to: some order
RECURSIVE Items(_)
Items(m) ==
    IF DOMAIN m = {}
    THEN <<>>
    ELSE LET k == CHOOSE x \in DOMAIN m : TRUE IN
           <<<<k, m[k]>>>> \o Items([x \in DOMAIN m \ {k} |-> m[x]])

\* rec_update(self, other): self is the dict e, items are other.items(); a
\* nested dict is updated in place, where it is: in e, or in the heap h
RECURSIVE RecUpdate(_, _, _)
RecUpdate(e, h, items) ==
    IF items = <<>>
    THEN [entries |-> e, heap |-> h]
    ELSE LET key == Head(items)[1]
             value == Head(items)[2]
         IN
           IF key \in DOMAIN e /\ IsDictValue(e[key]) /\ IsDictValue(value)
           THEN LET r == RecUpdate(Content(h, e[key]), h,
                                   Items(Content(h, value)))
                IN
                  IF "ref" \in DOMAIN e[key]
                  THEN RecUpdate(e, [r.heap EXCEPT ![e[key].ref] = r.entries],
                                 Tail(items))
                  ELSE RecUpdate([e EXCEPT ![key] = [map |-> r.entries]],
                                 r.heap, Tail(items))
           ELSE RecUpdate(DictSet(e, key, value), h, Tail(items))

\* SavedDict.update(other)
Update(i, items) ==
    /\ Live(i)
    /\ HasSetItem(i)
    /\ LET r == RecUpdate(EnsureLoaded(i), heap, items) IN
         /\ entries' = [entries EXCEPT ![i] = r.entries]
         /\ heap' = r.heap
    /\ needinit' = [needinit EXCEPT ![i] = FALSE]
    /\ last' = Other
    /\ UNCHANGED <<scenario, disk, updaters, saved, svars, cvars, ovars>>

\* ---- storage files that hold any JSON document

\* the JSON documents besides objects and numbers
JsonArray(s) == [array |-> s]
JsonString(s) == [string |-> s]
JsonNull == [null |-> TRUE]
IsObject(doc) == "object" \in DOMAIN doc

\* what a storage file found at start may hold: an object, the arrays [],
\* [["/c", 2]], [["/c", 2], 1] and [1], the strings "" and "ab", 1, null
ObjectC == [object |-> {<<"/c", [number |-> MaxId]>>}]
PairC == JsonArray(<<JsonString("/c"), [number |-> MaxId]>>)
Documents ==
    {ObjectC,
     JsonArray(<<>>), JsonArray(<<PairC>>),
     JsonArray(<<PairC, [number |-> 1]>>), JsonArray(<<[number |-> 1]>>),
     JsonString(""), JsonString("ab"),
     [number |-> 1], JsonNull}

\* json.load of any document: a dict, an int, a list, a str or None
RECURSIVE JsonLoadAny(_)
JsonLoadAny(doc) ==
    CASE "object" \in DOMAIN doc -> [map |-> JsonLoad(doc)]
      [] "number" \in DOMAIN doc -> PyInt(doc)
      [] "array" \in DOMAIN doc ->
           [list |-> [n \in 1..Len(doc.array) |-> JsonLoadAny(doc.array[n])]]
      [] "string" \in DOMAIN doc -> [str |-> doc.string]
      [] "null" \in DOMAIN doc -> [none |-> TRUE]

\* len() of the strings of the documents
StrLen(s) ==
    CASE s = "" -> 0
      [] s = "ab" -> 2
      [] s = "/c" -> 2

\* dict.__init__(iterable) takes an element as key and value when it is a
\* sequence of length two whose first element is hashable: of the elements
\* of the documents, a list of a str and a value
IsKeyValue(e) ==
    "list" \in DOMAIN e /\ Len(e.list) = 2 /\ "str" \in DOMAIN e.list[1]

\* dict.__init__(iterable) on a dict that holds cur: the elements are
\* inserted one by one until one is no key and value, which raises
RECURSIVE InitFromElements(_, _)
InitFromElements(cur, elems) ==
    IF elems = <<>>
    THEN [entries |-> cur, raised |-> FALSE]
    ELSE IF IsKeyValue(Head(elems))
    THEN InitFromElements(
             DictSet(cur, Head(elems).list[1].str, Head(elems).list[2]),
             Tail(elems))
    ELSE [entries |-> cur, raised |-> TRUE]

\* dict.__init__(data) for any Python value: a dict is merged in; a list or
\* a str is iterated (the elements of a str are strs of length one); an int
\* or None raises TypeError
DictInitAny(cur, data) ==
    CASE "map" \in DOMAIN data ->
           [entries |-> DictInit(cur, data.map), raised |-> FALSE]
      [] "list" \in DOMAIN data -> InitFromElements(cur, data.list)
      [] "str" \in DOMAIN data ->
           [entries |-> cur, raised |-> StrLen(data.str) > 0]
      [] OTHER -> [entries |-> cur, raised |-> TRUE]

\* SavedDict.load(), data is None, whatever the file holds: the entries
\* afterwards and whether the call raised
LoadFileResult(i) ==
    IF disk[Filename(i)] = NoFile
    THEN [entries |-> DictInit(entries[i], Default(i)), raised |-> FALSE]
    ELSE DictInitAny(entries[i], JsonLoadAny(disk[Filename(i)]))

\* the last call was load() of object i, and it raised or not
LoadOf(i, raised) == [op |-> "load", obj |-> i, raised |-> raised]

\* SavedDict.load(), data is None, whatever the file holds
LoadFile(i) ==
    /\ Live(i)
    /\ LET r == LoadFileResult(i) IN
         /\ entries' = [entries EXCEPT ![i] = r.entries]
         /\ needinit' = [needinit EXCEPT ![i] = IF r.raised THEN @ ELSE FALSE]
         /\ last' = LoadOf(i, r.raised)
    /\ UNCHANGED <<scenario, disk, updaters, saved, heap, svars, cvars, ovars>>

-----------------------------------------------------------------------------
(* canvasfs.py: the scoped cache                                           *)

\* CanvasFS._fields, in the order __set_name__ appends them
CfsFields == <<"files", "assignments", "quizzes">>
Namespaces == {CfsFields[n] : n \in 1..Len(CfsFields)}

\* the directories: the one the program starts in and one more; the path
\* arguments of canvasfs: the default ".", a directory, a missing directory
Dirs == {"home", "A"}
Missing == "/nonexistent"
Usages == {"sequence", "nesting"}
PathArgs == IF usage = "nesting" THEN {".", "A", Missing} ELSE {".", Missing}

\* os.chdir(path): where it leads, and whether it raises
Chdir(dir, path) == IF path = "." THEN dir ELSE path
DirExists(path) == path # Missing

\* the usages: "sequence" opens one with-block after the other in the
\* directory it starts in and works on every namespace; "nesting" nests
\* with-blocks over both directories and works on the files namespace
DepthOf == IF usage = "nesting" THEN MaxDepth ELSE 1
ItemNamespaces == IF usage = "nesting" THEN {"files"} ELSE Namespaces

\* the logical paths of each namespace and the identifiers stored for them
CKeys(n) ==
    CASE n = "files" ->
           IF usage = "nesting" THEN {"/a/b.pdf"} ELSE {"/a/b.pdf", "/img.svg"}
      [] n = "assignments" -> {"Homework/1. week"}
      [] n = "quizzes" -> {"Exam"}
CValues(n, k) ==
    IF usage = "sequence" /\ n = "files" /\ k = "/a/b.pdf"
    THEN Values
    ELSE {[int |-> 1]}

\* the listings of the remote system: what get_canvas_files,
\* get_canvas_assignments and get_canvas_quizzes return
CSnapshots(n) ==
    CASE n = "files" ->
           IF usage = "nesting"
           THEN {[k \in {"/a/b.pdf"} |-> [int |-> 1]]}
           ELSE {EmptyMap, [k \in {"/img.svg"} |-> [int |-> 1]]}
      [] n = "assignments" -> {[k \in {"Homework/1. week"} |-> [int |-> 1]]}
      [] n = "quizzes" -> {[k \in {"Exam"} |-> [int |-> 1]]}

\* what the three calls of update_canvasfs do: each returns a dict or raises
\* (in the nesting usage all return, or the first raises)
UcfsOutcomes ==
    IF usage = "nesting"
    THEN {o \in [Namespaces -> UNION {CSnapshots(n) : n \in Namespaces} \cup {Raises}] :
            /\ \A n \in Namespaces \ {"files"} : o[n] \in CSnapshots(n)
            /\ o["files"] \in CSnapshots("files") \cup {Raises}}
    ELSE {o \in [Namespaces -> UNION {CSnapshots(n) : n \in Namespaces} \cup {Raises}] :
            \A n \in Namespaces : o[n] \in CSnapshots(n) \cup {Raises}}

\* the keyword arguments of CanvasFS.update: one name, a member or not, with
\* a dict or another value
UpdateNames == ItemNamespaces \cup {"foo"}
UpdateValues(n) ==
    (IF n \in Namespaces THEN CSnapshots(n) ELSE {EmptyMap}) \cup {NotADict}

\* a CanvasFS instance's __dict__ right after construction
NoMembers == [n \in {} |-> EmptyMap]

\* LazyDict._load, for the file of namespace n in the current directory
LazyLoad(n) ==
    IF cdisk[cwd][n] # NoFile THEN JsonLoad(cdisk[cwd][n]) ELSE EmptyMap

\* LazyDict.__get__: the instance __dict__ d afterwards
LazyGet(d, n) ==
    IF n \in DOMAIN d
    THEN d
    ELSE [x \in DOMAIN d \cup {n} |-> IF x = n THEN LazyLoad(n) ELSE d[x]]

\* LazyDict.__set__
LazySetMerging(d, n, value) ==
    [x \in DOMAIN d \cup {n} |->
        IF x = n
        THEN (IF n \in DOMAIN d THEN DictInit(d[n], value) ELSE value)
        ELSE d[x]]
LazySet(d, n, value) ==
    [x \in DOMAIN d \cup {n} |-> IF x = n THEN value ELSE d[x]]

\* CanvasFS.save_state: LazyDict._save of every member, in the current
\* directory
DiskAfterSaveState(d) ==
    [cdisk EXCEPT ![cwd] =
        [n \in Namespaces |-> IF n \in DOMAIN d THEN JsonDump(d[n]) ELSE @[n]]]

\* cfs.append(canvasfs), cfs.pop(), cfs[-1]
PushedFirst(stack, obj) == <<obj>> \o stack
Pushed(stack, obj) == Append(stack, obj)
Popped(stack) == SubSeq(stack, 1, Len(stack) - 1)
Bottom(stack) == stack[1]
Top(stack) == stack[Len(stack)]

\* try ... finally of canvasfs: whether the finally block runs when the
\* body returned or raised
CleanupOnReturnOnly(raised) == ~raised
CleanupRuns(raised) == TRUE

\* how a call ends besides returning: the errors of the module
IndexError == [err |-> "IndexError"]
FileNotFound == [err |-> "FileNotFoundError"]
RemoteFailure == [err |-> "RemoteFailure"]

\* leaving the with-block: the exception of the body is raised again
ExitResult(raised) == IF raised THEN Raises ELSE ReturnsNone

\* the last call, for the calls that are told apart
EnterOf(result) == [op |-> "canvasfs", result |-> result]
ExitOf(result) == [op |-> "exit", result |-> result]
UcfsCall(result, calls) == [op |-> "update_canvasfs", result |-> result, calls |-> calls]
ResolveOf(result) == [op |-> "resolve", result |-> result]
UpdateOf(named) == [op |-> "update", named |-> named]
\* calls counts the calls of the wrapped function
RtcOf(result, calls) ==
    [op |-> "result_to_canvasfs", result |-> result, calls |-> calls]

\* LazyDict._load, whatever the file holds: only a dict passes the assert
AssertionError == [err |-> "AssertionError"]
LazyLoadFile(n) ==
    IF cdisk[cwd][n] = NoFile
    THEN [data |-> EmptyMap, raised |-> FALSE]
    ELSE LET data == JsonLoadAny(cdisk[cwd][n]) IN
           IF "map" \in DOMAIN data
           THEN [data |-> data.map, raised |-> FALSE]
           ELSE [data |-> EmptyMap, raised |-> TRUE]

\* the last call was the read of a member, and how it ended
GetOf(result) == [op |-> "get", result |-> result]

\* h.<n>, LazyDict.__get__ through the handle of the h-th open with-block,
\* whatever the file holds
Access(h, n) ==
    /\ h \in 1..Len(scopes)
    /\ IF n \in DOMAIN scopes[h].dict
       THEN /\ clast' = GetOf(ReturnsNone)
            /\ UNCHANGED scopes
       ELSE LET r == LazyLoadFile(n) IN
              IF r.raised
              THEN /\ clast' = GetOf(AssertionError)
                   /\ UNCHANGED scopes
              ELSE /\ clast' = GetOf(ReturnsNone)
                   /\ scopes' = [scopes EXCEPT ![h].dict =
                                    LazySet(@, n, r.data)]
    /\ UNCHANGED <<usage, cwd, cfs, cdisk, svars, mvars, ovars>>

\* with canvasfs(path) as ...: entering
Enter(path) ==
    /\ Len(scopes) < DepthOf
    /\ IF DirExists(path)
       THEN /\ cwd' = Chdir(cwd, path)
            /\ scopes' = Append(scopes, [cwd |-> cwd, root |-> Chdir(cwd, path),
                                         dict |-> NoMembers, stack |-> cfs])
            /\ cfs' = Pushed(cfs, Len(scopes) + 1)
            /\ clast' = EnterOf(ReturnsNone)
       ELSE /\ clast' = EnterOf(FileNotFound)
            /\ UNCHANGED <<cwd, scopes, cfs>>
    /\ UNCHANGED <<usage, cdisk, svars, mvars, ovars>>

\* the body of the innermost with-block returns or raises
Exit(raised) ==
    /\ scopes # <<>>
    /\ IF CleanupRuns(raised)
       THEN /\ cfs' = Popped(cfs)
            /\ cdisk' = DiskAfterSaveState(scopes[Len(scopes)].dict)
            /\ cwd' = scopes[Len(scopes)].cwd
       ELSE UNCHANGED <<cfs, cdisk, cwd>>
    /\ scopes' = SubSeq(scopes, 1, Len(scopes) - 1)
    /\ clast' = ExitOf(ExitResult(raised))
    /\ UNCHANGED <<usage, svars, mvars, ovars>>

\* h.<n>[k] = v through the handle of the h-th open with-block
Store(h, n, k, v) ==
    /\ h \in 1..Len(scopes)
    /\ LET d == LazyGet(scopes[h].dict, n) IN
         scopes' = [scopes EXCEPT ![h].dict = LazySet(d, n, DictSet(d[n], k, v))]
    /\ clast' = Other
    /\ UNCHANGED <<usage, cwd, cfs, cdisk, svars, mvars, ovars>>

\* dict.__getitem__ of a member: the identifier, or KeyError
CfsLookupOrNone(m, k) == IF k \in DOMAIN m THEN Returned(m[k]) ELSE ReturnsNone
CfsLookup(m, k) == IF k \in DOMAIN m THEN Returned(m[k]) ELSE KeyError

\* CanvasFS.resolve(ptype, path): what it returns or raises
ResolveResult(h, n, k) == CfsLookup(LazyGet(scopes[h].dict, n)[n], k)

\* CanvasFS.resolve(ptype, path)
Resolve(h, n, k) ==
    /\ h \in 1..Len(scopes)
    /\ scopes' = [scopes EXCEPT ![h].dict = LazyGet(@, n)]
    /\ clast' = ResolveOf(ResolveResult(h, n, k))
    /\ UNCHANGED <<usage, cwd, cfs, cdisk, svars, mvars, ovars>>

\* CanvasFS.update(**kwargs): the instance __dict__ afterwards
DictAfterUpdate(d, kwargs) ==
    LET named == {n \in Namespaces : n \in DOMAIN kwargs /\ IsDict(kwargs[n])} IN
      [x \in DOMAIN d \cup named |->
          IF x \in named THEN LazySet(d, x, kwargs[x])[x] ELSE d[x]]

\* CanvasFS.update(**kwargs)
CfsUpdate(h, kwargs) ==
    /\ h \in 1..Len(scopes)
    /\ scopes' = [scopes EXCEPT ![h].dict = DictAfterUpdate(@, kwargs)]
    /\ clast' = UpdateOf(DOMAIN kwargs)
    /\ UNCHANGED <<usage, cwd, cfs, cdisk, svars, mvars, ovars>>

\* CanvasFS.reset: LazyDict._reset of every member
CfsReset(h) ==
    /\ h \in 1..Len(scopes)
    /\ scopes' = [scopes EXCEPT ![h].dict = NoMembers]
    /\ clast' = Other
    /\ UNCHANGED <<usage, cwd, cfs, cdisk, svars, mvars, ovars>>

\* CanvasFS.save_state, called by the body
SaveState(h) ==
    /\ h \in 1..Len(scopes)
    /\ cdisk' = DiskAfterSaveState(scopes[h].dict)
    /\ clast' = Other
    /\ UNCHANGED <<usage, cwd, cfs, scopes, svars, mvars, ovars>>

\* the test that opens update_canvasfs
NoUsageGuard(stack) == FALSE
UsageGuard(stack) == Len(stack) = 0

\* cfs[-1].<n> = get_canvas_<n>(course) when the call raises: the dict it
\* was building is local to it, and the assignment is not made
DictOnFailurePartial(d, n) == LazySet(d, n, EmptyMap)
DictOnFailure(d, n) == d

\* the three assignments of update_canvasfs from the i-th on: each calls its
\* get_canvas_... first and then looks up cfs[-1]; d is the __dict__ of
\* that instance, calls counts the get_canvas_... calls made
RECURSIVE UcfsFrom(_, _, _, _)
UcfsFrom(i, d, calls, out) ==
    IF i > Len(CfsFields)
    THEN [dict |-> d, calls |-> calls, result |-> ReturnsNone]
    ELSE IF out[CfsFields[i]] = Raises
    THEN [dict |-> DictOnFailure(d, CfsFields[i]), calls |-> calls + 1,
          result |-> RemoteFailure]
    ELSE IF cfs = <<>>
    THEN [dict |-> d, calls |-> calls + 1, result |-> IndexError]
    ELSE UcfsFrom(i + 1, LazySet(d, CfsFields[i], out[CfsFields[i]]),
                  calls + 1, out)

\* update_canvasfs(course): what it does to cfs[-1] and how it ends
UcfsRun(out) ==
    IF UsageGuard(cfs)
    THEN [dict |-> NoMembers, calls |-> 0, result |-> IndexError]
    ELSE UcfsFrom(1, IF cfs = <<>> THEN NoMembers ELSE scopes[Top(cfs)].dict,
                  0, out)

\* update_canvasfs(course)
UpdateCanvasfs(out) ==
    /\ LET r == UcfsRun(out) IN
         /\ scopes' = IF cfs = <<>>
                      THEN scopes
                      ELSE [scopes EXCEPT ![Top(cfs)].dict = r.dict]
         /\ clast' = UcfsCall(r.result, r.calls)
    /\ UNCHANGED <<usage, cwd, cfs, cdisk, svars, mvars, ovars>>

\* the object a wrapped function returns, and the default id_fn
Response(id) == [id |-> id]
IdFn(value) == value.id

\* ld = getattr(cfs[-1], which); ld[idx] = id: the __dict__ d afterwards
RtcDictReplacing(d, which, k, id) == LazySet(d, which, [x \in {k} |-> id])
RtcDict(d, which, k, id) ==
    LET e == LazyGet(d, which) IN LazySet(e, which, DictSet(e[which], k, id))

\* a function wrapped by result_to_canvasfs(which, key_fn, id_fn) is called:
\* key_fn gives k; the function returns a value of identifier fout, or
\* raises; only then cfs[-1] is looked up
ResultToCanvasfs(which, k, fout) ==
    /\ IF fout = Raises
       THEN /\ clast' = RtcOf(RemoteFailure, 1)
            /\ UNCHANGED scopes
       ELSE IF cfs = <<>>
       THEN /\ clast' = RtcOf(IndexError, 1)
            /\ UNCHANGED scopes
       ELSE /\ scopes' = [scopes EXCEPT ![Top(cfs)].dict =
                               RtcDict(@, which, k, IdFn(Response(fout)))]
            /\ clast' = RtcOf(Returned(Response(fout)), 1)
    /\ UNCHANGED <<usage, cwd, cfs, cdisk, svars, mvars, ovars>>

\* ---- get_canvas_assignments and get_canvas_files

\* functools.lru_cache(): without arguments the cache keeps 128 entries
LruMaxsize == 128

\* a str is the sequence of its pieces: the root "course files" of the
\* folder names and "/" are pieces of their own, no piece holds either
RootPrefix == "course files"
Slash == "/"

\* the f-string "{prefix}/{name}"
FormatKey(prefix, name) == prefix \o <<Slash>> \o name

\* str.replace(old, ""): every occurrence of the piece old is removed
ReplaceLeading(str, old) ==
    IF str # <<>> /\ Head(str) = old THEN Tail(str) ELSE str
Replace(str, old) == SelectSeq(str, LAMBDA piece : piece # old)

\* course.get_assignment_group(group_id).name, as the remote system has it
GroupName(g) == IF g = 1 THEN <<"Homework">> ELSE <<"Exam">>

\* the assignments the remote system lists: up to two out of two groups,
\* or one in each of the groups 1..n followed by one more of group 1
Assignment(g, n, i) == [assignment_group_id |-> g, name |-> n, id |-> i]
Round(n) ==
    [k \in 1..(n + 1) |->
        Assignment(IF k = n + 1 THEN 1 ELSE k, <<"1. week">>, k)]
AssignmentLists ==
    LET few == {Assignment(g, <<"1. week">>, i) : g \in 1..2, i \in Ids} IN
      {<<>>} \cup {<<a>> : a \in few} \cup {<<a, b>> : a \in few, b \in few}
      \cup {Round(LruMaxsize), Round(LruMaxsize + 1)}

\* the folders the remote system lists: up to two, each with its full name,
\* its files (display name and id), and their number as files_count
Folder(full, files) ==
    [full_name |-> full, files |-> files, files_count |-> Len(files)]
FolderLists ==
    LET names == {<<RootPrefix>>,
                  <<RootPrefix, Slash, "problems">>,
                  <<RootPrefix, Slash, "old ", RootPrefix>>}
        files == {<<>>} \cup
                 {<<[display_name |-> <<"mathjax.png">>, id |-> i]>> : i \in Ids}
        few == {Folder(n, f) : n \in names, f \in files}
    IN
      {<<>>} \cup {<<a>> : a \in few} \cup {<<a, b>> : a \in few, b \in few}

\* the lru_cache wrapped around the lookup of a group name, called with
\* group id g: a hit makes g the most recently used entry; a miss calls the
\* lookup and stores g, in place of the least recently used entry when the
\* cache is full
LruAfter(cache, g) ==
    IF \E n \in 1..Len(cache) : cache[n] = g
    THEN SelectSeq(cache, LAMBDA x : x # g) \o <<g>>
    ELSE (IF Len(cache) >= LruMaxsize THEN Tail(cache) ELSE cache) \o <<g>>

\* one iteration of the loop of get_canvas_assignments
AssignmentStep ==
    /\ job = "assignments"
    /\ pos <= Len(remote)
    /\ LET assgn == remote[pos]
           g == assgn.assignment_group_id
       IN
         /\ lru' = LruAfter(lru, g)
         /\ asked' = IF \E n \in 1..Len(lru) : lru[n] = g
                     THEN asked
                     ELSE Append(asked, g)
         /\ built' = DictSet(built, FormatKey(GroupName(g), assgn.name),
                             [int |-> assgn.id])
    /\ pos' = pos + 1
    /\ UNCHANGED <<job, remote, svars, mvars, cvars, gvars, pvars, dvars>>

\* the inner loop of get_canvas_files: the files of one folder
RECURSIVE FilesAdded(_, _, _)
FilesAdded(d, folder_name, files) ==
    IF files = <<>>
    THEN d
    ELSE FilesAdded(DictSet(d, FormatKey(folder_name, Head(files).display_name),
                            [int |-> Head(files).id]),
                    folder_name, Tail(files))

\* the test of get_canvas_files that decides whether folder.get_files() is
\* called
ListsFilesAlways(folder) == TRUE
ListsFiles(folder) == folder.files_count > 0

\* one iteration of the outer loop of get_canvas_files; asked records the
\* folders, by position, whose files were listed
FolderStep ==
    /\ job = "files"
    /\ pos <= Len(remote)
    /\ LET folder == remote[pos] IN
         IF ListsFiles(folder)
         THEN /\ built' = FilesAdded(built,
                                     Replace(folder.full_name, RootPrefix),
                                     folder.files)
              /\ asked' = Append(asked, pos)
         ELSE UNCHANGED <<built, asked>>
    /\ pos' = pos + 1
    /\ UNCHANGED <<job, remote, lru, svars, mvars, cvars, gvars, pvars, dvars>>

\* the values of the canvasfs variables while other parts are exercised
CanvasIdle ==
    /\ usage = "sequence"
    /\ cwd = "home"
    /\ cfs = <<>>
    /\ scopes = <<>>
    /\ cdisk = [dir \in Dirs |-> [n \in Namespaces |-> NoFile]]
    /\ clast = Other

\* ---- section.py: Section.get and Section.__getitem__

\* Python's None, and the str values of the YAML documents
None == [none |-> TRUE]
StrValues == {[str |-> "S"], [str |-> "H"], [str |-> "D"]}

\* normalize_key for the keys of the documents considered: "Feladatok" is
\* lowered and translated by vocab, as is "Csoport"; the others are
\* returned as they are
NormalizeKey(key) ==
    CASE key = "Feladatok" -> "exs"
      [] key = "Csoport" -> "title"
      [] OTHER -> key

\* for k, v in d.items(): setattr(self, normalize_key(k), v), on an object
\* whose __dict__ is empty (no two keys of d have the same normal form)
SetAttrs(d) ==
    [a \in {NormalizeKey(k) : k \in DOMAIN d} |->
        d[CHOOSE k \in DOMAIN d : NormalizeKey(k) = a]]

\* the YAML header documents and override records: dicts, or None for an
\* empty override document
HeaderDicts == UNION {[D -> {[str |-> "H"]}] : D \in SUBSET {"Csoport", "exs"}}
Records ==
    {None} \cup
    UNION {[D -> {[str |-> "S"]}] : D \in SUBSET {"Feladatok", "title", "date"}}

\* what data_iter yields for the first Section
SectionData == {[date |-> d, serial |-> 1, week |-> 1] : d \in {0, 2}}

\* the attribute names asked for, and the defaults given
AttrNames == {"exs", "title", "date", "next_week", "Feladatok", "nosuch"}
Defaults == {None, [str |-> "D"]}

\* the attributes every instance has through its class: the methods
ClassAttrs(class) ==
    IF class = "Section" THEN {"get", "next_week"} ELSE {"next_week"}

\* hasattr(obj, attr) and getattr(obj, attr) for an instance of class with
\* instance __dict__ d
HasAttr(d, class, attr) == attr \in DOMAIN d \/ attr \in ClassAttrs(class)
GetAttr(d, class, attr) ==
    IF attr \in DOMAIN d THEN d[attr] ELSE [method |-> <<class, attr>>]

\* Section.__init__(section, header, data): the instance __dict__
SectionInit(section, data) ==
    LET own == IF section = None THEN EmptyMap ELSE SetAttrs(section)
        set == [date |-> [int |-> data.date], serial |-> [int |-> data.serial],
                week |-> [int |-> data.week], header |-> [instance |-> "Header"]]
    IN
      [a \in DOMAIN own \cup DOMAIN set |->
          IF a \in DOMAIN set THEN set[a] ELSE own[a]]

\* Section.get(attr, default): what it returns
SectionGetHeaderFirst(attr, default) ==
    IF HasAttr(hattrs, "Header", attr)
    THEN GetAttr(hattrs, "Header", attr)
    ELSE IF HasAttr(sect.dict, "Section", attr)
    THEN GetAttr(sect.dict, "Section", attr)
    ELSE default
SectionGet(attr, default) ==
    IF HasAttr(sect.dict, "Section", attr)
    THEN GetAttr(sect.dict, "Section", attr)
    ELSE IF HasAttr(hattrs, "Header", attr)
    THEN GetAttr(hattrs, "Header", attr)
    ELSE default

NoSection == [absent |-> TRUE]
NoCall == [op |-> "none"]

\* read_section builds a Section from an override record
NewSection(section, data) ==
    /\ sect = NoSection
    /\ sect' = [dict |-> SectionInit(section, data), record |-> section]
    /\ got' = NoCall
    /\ UNCHANGED <<hattrs, svars, mvars, cvars, lvars, pvars, dvars>>

\* Section.get(attr, default)
Get(attr, default) ==
    /\ sect # NoSection
    /\ got' = [op |-> "get", attr |-> attr, default |-> default,
               result |-> SectionGet(attr, default)]
    /\ UNCHANGED <<hattrs, sect, svars, mvars, cvars, lvars, pvars, dvars>>

\* Section.__getitem__(key)
SectionGetItem(key) ==
    /\ sect # NoSection
    /\ got' = [op |-> "getitem", attr |-> key, default |-> None,
               result |-> SectionGet(key, None)]
    /\ UNCHANGED <<hattrs, sect, svars, mvars, cvars, lvars, pvars, dvars>>

\* ---- pandoc.py: run_cmd_on_text

\* the bytes a process writes: "A", the two bytes of the UTF-8 form of
\* U+00E9, and 0xFF, which no UTF-8 text holds
Bytes == {65, 195, 169, 255}
ByteStrings == UNION {[1..n -> Bytes] : n \in 0..MaxBytes}

\* bytes.decode("utf-8"): the code points, or UnicodeDecodeError; of the
\* bytes above only 195 starts a sequence of two bytes
RECURSIVE Utf8Decode(_)
Utf8Decode(b) ==
    IF b = <<>>
    THEN [text |-> <<>>, raised |-> FALSE]
    ELSE IF Head(b) < 128
    THEN LET r == Utf8Decode(Tail(b)) IN
           [text |-> <<Head(b)>> \o r.text, raised |-> r.raised]
    ELSE IF Head(b) \in 194..223 /\ Len(b) >= 2 /\ b[2] \in 128..191
    THEN LET r == Utf8Decode(SubSeq(b, 3, Len(b))) IN
           [text |-> <<(Head(b) - 192) * 64 + (b[2] - 128)>> \o r.text,
            raised |-> r.raised]
    ELSE [text |-> <<>>, raised |-> TRUE]

\* what the finished process leaves: subprocess.CompletedProcess
Processes ==
    {[returncode |-> rc, stdout |-> out, stderr |-> err] :
        rc \in {0, 1}, out \in ByteStrings, err \in ByteStrings}
NoProcess == [absent |-> TRUE]

UnicodeDecodeError == [err |-> "UnicodeDecodeError"]

\* a record of the logger: the level and the message, the command line
\* being the message "cmd"
LogRecord(level, msg) == [level |-> level, msg |-> msg]

\* run_cmd_on_text(cmd, text) after subprocess.run returned p: the records
\* logged and what is returned or raised
RunCmdResult(p) ==
    LET err == Utf8Decode(p.stderr)
        out == Utf8Decode(p.stdout)
    IN
      IF p.returncode # 0
      THEN IF err.raised
           THEN [log |-> <<LogRecord("error", "cmd")>>,
                 ret |-> UnicodeDecodeError]
           ELSE [log |-> <<LogRecord("error", "cmd"),
                           LogRecord("error", err.text)>>,
                 ret |-> Returned(<<>>)]
      ELSE LET log == IF p.stderr = <<>>
                      THEN <<>>
                      ELSE IF err.raised
                      THEN <<LogRecord("warning", "cmd")>>
                      ELSE <<LogRecord("warning", "cmd"),
                             LogRecord("warning", err.text)>>
           IN
             IF (p.stderr # <<>> /\ err.raised) \/ out.raised
             THEN [log |-> log, ret |-> UnicodeDecodeError]
             ELSE [log |-> log, ret |-> Returned(out.text)]

\* run_cmd_on_text(cmd, text), the one call of the run
RunCmdOnText(p) ==
    /\ pret = ReturnsNone
    /\ proc' = p
    /\ plog' = RunCmdResult(p).log
    /\ pret' = RunCmdResult(p).ret
    /\ UNCHANGED <<svars, mvars, cvars, lvars, gvars, dvars>>

\* pandoc_with_options(text, **kwargs): pandoc_cmd raises FileNotFoundError
\* when no pandoc of version 2 or later is found; otherwise the command
\* line is run on the text
PandocWithOptions(found, p) ==
    /\ pret = ReturnsNone
    /\ IF found
       THEN /\ proc' = p
            /\ plog' = RunCmdResult(p).log
            /\ pret' = RunCmdResult(p).ret
       ELSE /\ proc' = NoProcess
            /\ plog' = <<>>
            /\ pret' = FileNotFound
    /\ UNCHANGED <<svars, mvars, cvars, lvars, gvars, dvars>>

\* ---- course.py: confirm_delete and del_assignments

\* the assignments listed for the title: ids in listing order, each with or
\* without submitted submissions
ExsLists ==
    UNION {[1..n -> BOOLEAN] : n \in 0..MaxExs}
Listed(i, submitted) == [id |-> i, has_submitted_submissions |-> submitted]

\* the options of the ToggleButtons, and str.lower of them
Options == {"No", "Yes"}
Lower(ans) == IF ans = "Yes" THEN "yes" ELSE "no"
IsYes(ans) == Lower(ans) = "yes"

\* prompt.format(fname=ex.name), and the description before the first prompt
NoPrompt == [noprompt |-> TRUE]
Shown(ex) == [shown |-> ex.id]

\* cb of del_assignments: whether it calls x.delete()
CallbackDeletesAlways(x) == TRUE
CallbackDeletes(x) == ~x.has_submitted_submissions

\* how x.delete() ends: it returns; or it raises and the Output widget the
\* callback runs in shows the exception and the loop goes on; or it
\* raises and the exception ends the generator
DeleteOutcomes == {"returns", "shown", "propagates"}

\* iter_fn runs from the top of its loop for the assignment after the i-th:
\* it sets the prompt and yields, or, after the last, closes the widget
\* and returns
IterFrom(i) ==
    IF i < Len(exs)
    THEN /\ prompt' = Shown(exs[i + 1])
         /\ at' = i + 1
         /\ gen' = "suspended"
         /\ UNCHANGED closed
    ELSE /\ closed' = TRUE
         /\ at' = i + 1
         /\ gen' = "finished"
         /\ UNCHANGED prompt

\* confirm_delete up to display: next(ex_iter)
ConfirmDelete ==
    /\ gen = "new"
    /\ IterFrom(0)
    /\ UNCHANGED <<exs, answers, deleted, late, svars, mvars, cvars, lvars, gvars, pvars>>

\* widget_cb receives a click while the toggle shows ans: the value is sent
\* to iter_fn, which handles the assignment it is at, or has ended already
Click(ans, outcome) ==
    /\ gen # "new"
    /\ exs # <<>>
    /\ IF gen = "suspended"
       THEN LET ex == exs[at]
                deletes == IsYes(ans) /\ CallbackDeletes(ex)
            IN
              /\ outcome # "returns" => deletes
              /\ answers' = Append(answers, [prompt |-> prompt, ans |-> ans])
              /\ deleted' = IF deletes THEN Append(deleted, ex.id) ELSE deleted
              /\ IF outcome = "propagates"
                 THEN /\ gen' = "finished"
                      /\ UNCHANGED <<at, prompt, closed>>
                 ELSE IterFrom(at)
              /\ UNCHANGED late
       ELSE /\ outcome = "returns"
            /\ late < MaxLate
            /\ late' = late + 1
            /\ UNCHANGED <<gen, at, prompt, closed, answers, deleted>>
    /\ UNCHANGED <<exs, svars, mvars, cvars, lvars, gvars, pvars>>

\* del_assignments was not called
DeleteIdle ==
    /\ exs = <<>>
    /\ gen = "new"
    /\ at = 0
    /\ prompt = NoPrompt
    /\ closed = FALSE
    /\ answers = <<>>
    /\ deleted = <<>>
    /\ late = 0

\* no Section is built, no converter has run
SectionIdle ==
    /\ hattrs = EmptyMap
    /\ sect = NoSection
    /\ got = NoCall
PandocIdle ==
    /\ proc = NoProcess
    /\ plog = <<>>
    /\ pret = ReturnsNone

\* no enumeration of the remote system runs
ListingIdle ==
    /\ job = "none"
    /\ remote = <<>>
    /\ pos = 1
    /\ lru = <<>>
    /\ asked = <<>>
    /\ built = EmptyMap

\* the values of the variables of the other parts
OthersIdle == ListingIdle /\ SectionIdle /\ PandocIdle /\ DeleteIdle

\* the values of the schedule variables while the maps are exercised
ScheduleIdle ==
    /\ header = [first_section |-> 0, hasLast |-> FALSE,
                 last_section |-> 0, breaks |-> {}]
    /\ lst = [n |-> 0, endless |-> FALSE, total |-> 0]
    /\ pc = "done"
    /\ gstate = "new"
    /\ date = 0 /\ serial = 0 /\ week = 0
    /\ nw_date = 0 /\ nw_week = 0
    /\ sections = <<>>

\* the objects are constructed in a directory that holds no file yet; the
\* files of earlier runs are what save() leaves behind before a reset()
Init ==
    /\ ScheduleIdle
    /\ scenario \in Scenarios
    /\ disk = [p \in Paths |-> NoFile]
    /\ saved = [p \in Paths |-> EmptyMap]
    /\ needinit = [i \in Objs |-> TRUE]
    /\ entries = [i \in Objs |-> EmptyMap]
    /\ updaters = {}
    /\ last = Other
    /\ heap = HeapInit
    /\ CanvasIdle
    /\ OthersIdle

Next ==
    \/ \E i \in Objs : \E k \in KeysOf(i) : GetItem(i, k)
    \/ \E i \in Objs : \E k \in KeysOf(i), v \in ValuesOf(i) : SetItem(i, k, v)
    \/ \E i \in Objs : Load(i)
    \/ \E i \in Objs : \E data \in Snapshots(i) : LoadData(i, data)
    \/ \E i \in Objs : Save(i)
    \/ \E i \in Objs : Reset(i)
    \/ ScdSave
    \/ ScdReset
    \/ \E n \in KwNames : \E d \in SnapshotsOf(n) \cup {NotADict} :
          ScdUpdate([x \in {n} |-> d])
    \/ \E n \in Members : RegisterUpdater(n)
    \/ \E f \in Outcomes("files"), o \in Outcomes("others") :
          UpdateFromCanvas([files |-> f, others |-> o])

Spec == Init /\ [][Next]_vars

\* the values of the map variables while the schedule is generated
MapsIdle ==
    /\ scenario = "saveddict"
    /\ disk = [p \in Paths |-> NoFile]
    /\ saved = [p \in Paths |-> EmptyMap]
    /\ needinit = [i \in Objs |-> TRUE]
    /\ entries = [i \in Objs |-> EmptyMap]
    /\ updaters = {}
    /\ last = Other
    /\ heap = HeapInit

\* update is exercised on a = SavedDict("latex_formats.json", default=...)
InitUpdate == ScheduleIdle /\ MapsIdle /\ CanvasIdle /\ OthersIdle

\* the program starts in its home directory, outside every with-block,
\* and no cache file exists
InitCanvasFS ==
    /\ ScheduleIdle
    /\ MapsIdle
    /\ usage \in Usages
    /\ cwd = "home"
    /\ cfs = <<>>
    /\ scopes = <<>>
    /\ cdisk = [dir \in Dirs |-> [n \in Namespaces |-> NoFile]]
    /\ clast = Other
    /\ OthersIdle

NextCanvasFS ==
    \/ \E path \in PathArgs : Enter(path)
    \/ \E raised \in BOOLEAN : Exit(raised)
    \/ \E h \in 1..Len(scopes) : \E n \in ItemNamespaces :
          \E k \in CKeys(n) : \E v \in CValues(n, k) : Store(h, n, k, v)
    \/ \E h \in 1..Len(scopes) : \E n \in ItemNamespaces :
          \E k \in CKeys(n) : Resolve(h, n, k)
    \/ \E h \in 1..Len(scopes) : \E n \in UpdateNames :
          \E d \in UpdateValues(n) : CfsUpdate(h, [x \in {n} |-> d])
    \/ \E h \in 1..Len(scopes) : CfsReset(h)
    \/ \E h \in 1..Len(scopes) : SaveState(h)
    \/ \E out \in UcfsOutcomes : UpdateCanvasfs(out)
    \/ \E n \in ItemNamespaces : \E k \in CKeys(n) :
          \E fout \in CValues(n, k) \cup {Raises} : ResultToCanvasfs(n, k, fout)

SpecCanvasFS == InitCanvasFS /\ [][NextCanvasFS]_vars

\* the program starts in a directory where another program left the
\* storage files, all with the same document, or none
InitForeign ==
    /\ ScheduleIdle
    /\ scenario = "saveddict"
    /\ \E doc \in Documents \cup {NoFile} :
          /\ disk = [p \in Paths |-> doc]
          /\ cdisk = [dir \in Dirs |-> [n \in Namespaces |-> doc]]
    /\ saved = [p \in Paths |-> EmptyMap]
    /\ needinit = [i \in Objs |-> TRUE]
    /\ entries = [i \in Objs |-> EmptyMap]
    /\ updaters = {}
    /\ last = Other
    /\ heap = HeapInit
    /\ usage = "sequence"
    /\ cwd = "home"
    /\ cfs = <<>>
    /\ scopes = <<>>
    /\ clast = Other
    /\ OthersIdle

NextForeign ==
    \/ \E i \in SDObjs : LoadFile(i)
    \/ \E i \in SDObjs : Save(i)
    \/ \E i \in SDObjs : Reset(i)
    \/ Enter(".")
    \/ Exit(FALSE)
    \/ \E h \in 1..Len(scopes) : Access(h, "files")
    \/ \E h \in 1..Len(scopes) : CfsReset(h)

SpecForeign == InitForeign /\ [][NextForeign]_vars

\* the dicts handed to update: a dict, or an int, for a key of the default
\* or for another key
DefaultOthers ==
    {<< <<k, [map |-> OneY]>> >> : k \in Keys}
    \cup {<< <<k, [int |-> MaxId]>> >> : k \in Keys}

\* a = SavedDict("latex_formats.json", default={"/c": {"x": 1}}): the
\* default holds a dict
InitDefault ==
    /\ ScheduleIdle
    /\ scenario = "nested"
    /\ disk = [p \in Paths |-> NoFile]
    /\ saved = [p \in Paths |-> EmptyMap]
    /\ needinit = [i \in Objs |-> TRUE]
    /\ entries = [i \in Objs |-> EmptyMap]
    /\ updaters = {}
    /\ last = Other
    /\ heap = HeapInit
    /\ CanvasIdle
    /\ OthersIdle

NextDefault ==
    \/ \E k \in Keys : GetItem("a", k)
    \/ \E k \in Keys : SetItem("a", k, [int |-> 1])
    \/ \E o \in DefaultOthers : Update("a", o)
    \/ Save("a")
    \/ Reset("a")

SpecDefault == InitDefault /\ [][NextDefault]_vars

\* del_assignments(course, title) is called: the remote system lists the
\* assignments that match the title
InitDelete ==
    /\ ScheduleIdle
    /\ MapsIdle
    /\ CanvasIdle
    /\ ListingIdle
    /\ SectionIdle
    /\ PandocIdle
    /\ \E flags \in ExsLists :
          exs = [i \in DOMAIN flags |-> Listed(i, flags[i])]
    /\ gen = "new"
    /\ at = 0
    /\ prompt = NoPrompt
    /\ closed = FALSE
    /\ answers = <<>>
    /\ deleted = <<>>
    /\ late = 0

NextDelete ==
    \/ ConfirmDelete
    \/ \E ans \in Options, outcome \in DeleteOutcomes : Click(ans, outcome)

SpecDelete == InitDelete /\ [][NextDelete]_vars

\* a program that works on a persistent map (a of saveddict.py, or the
\* member files of a SavedCourseData) and opens with-blocks in its home
\* directory, one after the other, with one path and one remote listing each
StorageObjs == {"a", "files"}
StorageKey == "/c"
StorageValue == [int |-> MaxId]
StorageListing == [k \in {StorageKey} |-> [int |-> 1]]
StorageFile == "/img.svg"
StorageOutcomes ==
    {o \in UcfsOutcomes : o["assignments"] # Raises /\ o["quizzes"] # Raises}

InitStorage == Init

NextStorage ==
    \/ \E i \in StorageObjs : GetItem(i, StorageKey)
    \/ \E i \in StorageObjs : SetItem(i, StorageKey, StorageValue)
    \/ \E i \in StorageObjs : Load(i)
    \/ \E i \in StorageObjs : LoadData(i, StorageListing)
    \/ \E i \in StorageObjs : Save(i)
    \/ \E i \in StorageObjs : Reset(i)
    \/ Update("a", << <<StorageKey, StorageValue>> >>)
    \/ ScdSave
    \/ ScdReset
    \/ ScdUpdate([x \in {"files"} |-> StorageListing])
    \/ RegisterUpdater("files")
    \/ \E f \in {StorageListing, Raises} :
          UpdateFromCanvas([files |-> f, others |-> ReturnsNone])
    \/ Enter(".")
    \/ \E raised \in BOOLEAN : Exit(raised)
    \/ \E h \in 1..Len(scopes) : Store(h, "files", StorageFile, [int |-> 1])
    \/ \E h \in 1..Len(scopes) : Resolve(h, "files", StorageFile)
    \/ \E h \in 1..Len(scopes) :
          \E d \in CSnapshots("files") : CfsUpdate(h, [x \in {"files"} |-> d])
    \/ \E h \in 1..Len(scopes) : CfsReset(h)
    \/ \E h \in 1..Len(scopes) : SaveState(h)
    \/ \E out \in StorageOutcomes : UpdateCanvasfs(out)
    \/ ResultToCanvasfs("files", StorageFile, [int |-> 1])

SpecStorage == InitStorage /\ [][NextStorage]_vars

\* one call of get_canvas_assignments or of get_canvas_files starts, with
\* a new cache of group names and an empty dict
InitListing ==
    /\ ScheduleIdle
    /\ MapsIdle
    /\ CanvasIdle
    /\ \/ job = "assignments" /\ remote \in AssignmentLists
       \/ job = "files" /\ remote \in FolderLists
    /\ pos = 1
    /\ lru = <<>>
    /\ asked = <<>>
    /\ built = EmptyMap
    /\ SectionIdle
    /\ PandocIdle
    /\ DeleteIdle

NextListing == AssignmentStep \/ FolderStep

SpecListing == InitListing /\ [][NextListing]_vars

\* read_section has built the Header and comes to the first override
\* record
InitSection ==
    /\ ScheduleIdle
    /\ MapsIdle
    /\ CanvasIdle
    /\ ListingIdle
    /\ PandocIdle
    /\ hattrs \in {SetAttrs(h) : h \in HeaderDicts}
    /\ sect = NoSection
    /\ got = NoCall
    /\ DeleteIdle

NextSection ==
    \/ \E section \in Records, d \in SectionData : NewSection(section, d)
    \/ \E attr \in AttrNames, default \in Defaults : Get(attr, default)
    \/ \E key \in AttrNames : SectionGetItem(key)

SpecSection == InitSection /\ [][NextSection]_vars

\* no converter has run yet
InitPandoc ==
    /\ ScheduleIdle
    /\ MapsIdle
    /\ CanvasIdle
    /\ ListingIdle
    /\ SectionIdle
    /\ PandocIdle
    /\ DeleteIdle

NextPandoc ==
    \/ \E p \in Processes : RunCmdOnText(p)
    \/ \E found \in BOOLEAN, p \in Processes : PandocWithOptions(found, p)

SpecPandoc == InitPandoc /\ [][NextPandoc]_vars

NextUpdate ==
    \/ \E o \in Others : Update("a", o)
    \/ Save("a")
    \/ Reset("a")

SpecUpdate == InitUpdate /\ [][NextUpdate]_vars

-----------------------------------------------------------------------------
(* Properties of the persistent maps                                       *)

\* the storage file of the two SavedDicts of saveddict.py
SDFile == Filename("a")

\* C1: the first get or set on an unloaded map, of saveddict.py and of
\* coursedata.py alike, first loads the entries from the storage file if it
\* exists, else from the default, and only then performs the access; so
\* set(k, v) on an unloaded map followed by save() leaves on disk the
\* entries stored before plus k -> v.
AccessLoadsFirst ==
    [][\A i \in Objs : \A k \in KeysOf(i) :
         /\ (needinit[i] /\ GetItem(i, k)) =>
               (~needinit'[i] /\ entries'[i] = FileData(i))
         /\ \A v \in ValuesOf(i) :
               /\ (needinit[i] /\ SetItem(i, k, v)) =>
                     (~needinit'[i] /\ entries'[i] = DictSet(FileData(i), k, v))
               /\ (last = SetUnloaded(i, k, v) /\ Save(i)) =>
                     disk'[Filename(i)] = JsonDump(DictSet(FileData(i), k, v))
      ]_vars

LastWriterWins ==
    /\ [](\A i \in SDObjs : \A j \in SDObjs \ {i} :
            last = SaveAfterSave(j, i) =>
               /\ disk[SDFile] = JsonDump(entries[j])
               /\ saved[SDFile] = entries[j]
               /\ \A k \in DOMAIN entries[i] \ DOMAIN entries[j] :
                     k \notin DOMAIN JsonLoad(disk[SDFile]))
    /\ [][disk'[SDFile] # disk[SDFile] =>
             \E j \in SDObjs :
                /\ last'.op = "save"
                /\ last'.obj = j
                /\ ~needinit[j]
                /\ disk'[SDFile] = JsonDump(entries[j])
         ]_vars

\* a and b were loaded and changed, a was saved and then b, and a holds a
\* key that b does not hold; and the same with a and b exchanged
LastWriterWinsWitness ==
    /\ scenario = "saveddict"
    /\ last = SaveAfterSave("b", "a")
    /\ entries["a"] # Default("a")
    /\ entries["b"] # EmptyMap
    /\ DOMAIN entries["a"] \ DOMAIN entries["b"] # {}

\* C29: only save writes to storage. A storage file of a persistent map is
\* created or changed by SavedDict.save and SavedCourseData.save alone, a
\* file of a cache by CanvasFS.save_state and by leaving its with-block
\* alone: get, set, update, load, reset, resolve, CanvasFS.update,
\* update_canvasfs, update_from_canvas and a wrapped function leave every
\* file as it is and create none.
OnlySaveWrites ==
    [][/\ disk' # disk =>
             \/ \E i \in Objs : Save(i)
             \/ ScdSave
       /\ cdisk' # cdisk =>
             \/ \E h \in 1..Len(scopes) : SaveState(h)
             \/ \E raised \in BOOLEAN : Exit(raised)
      ]_vars

\* the map and the cache of an open with-block were changed after their
\* files were written, by calls that are no save: the files still hold what
\* was saved
OnlySaveWritesWitness ==
    /\ last = Other
    /\ clast.op = "update_canvasfs"
    /\ \E i \in StorageObjs :
          /\ Live(i)
          /\ ~needinit[i]
          /\ disk[Filename(i)] # NoFile
          /\ disk[Filename(i)] = JsonDump(saved[Filename(i)])
          /\ entries[i] # saved[Filename(i)]
    /\ scopes # <<>>
    /\ cdisk["home"]["files"] # NoFile
    /\ "files" \in DOMAIN scopes[1].dict
    /\ scopes[1].dict["files"] # JsonLoad(cdisk["home"]["files"])

\* C35: invariant of the SavedDict of saveddict.py: after any sequence of
\* get, set, update, load, save and reset, the failing calls included, a map
\* that is marked unloaded holds no entries.
UnloadedIsEmpty ==
    \A i \in SDObjs : needinit[i] => entries[i] = EmptyMap

\* C3: round trip. A pair set on a SavedDict is in the map, save() writes
\* the map as it is, and every pair written by the last save is what a
\* get returns after reset() or through another, not yet loaded, SavedDict
\* over the same path.
RoundTrip ==
    /\ [][\A i \in Objs :
            /\ \A k \in KeysOf(i), v \in ValuesOf(i) :
                  SetItem(i, k, v) => (k \in DOMAIN entries'[i] /\ entries'[i][k] = v)
            /\ (~needinit[i] /\ Save(i)) =>
                  (disk'[Filename(i)] # NoFile /\ saved'[Filename(i)] = entries[i])
         ]_vars
    /\ [](\A i \in Objs :
            (Live(i) /\ needinit[i] /\ disk[Filename(i)] # NoFile) =>
               \A k \in DOMAIN saved[Filename(i)] :
                  GetResult(i, k) = Returned(saved[Filename(i)][k]))

\* both SavedDicts are unloaded (reset, or never used) and the file holds
\* two pairs that were set and saved, one of them differing from the default
RoundTripWitness ==
    /\ scenario = "saveddict"
    /\ needinit["a"] /\ needinit["b"]
    /\ disk[SDFile] # NoFile
    /\ DOMAIN saved[SDFile] = Keys
    /\ saved[SDFile]["/c"] = [int |-> 2]

\* C4: load(data) with a dict makes the entries exactly data and marks the
\* map loaded, whatever it held before, without reading the storage file.
LoadDataReplaces ==
    [][\A i \in Objs : \A data \in Snapshots(i) :
         LoadData(i, data) =>
            (entries'[i] = data /\ ~needinit'[i] /\ disk' = disk)
      ]_vars

\* C5: SavedCourseData.update(name=data) with a dict, and update_from_canvas
\* for a namespace whose registered updater returns a dict, leave that
\* member holding exactly that dict, whatever it held; the other members
\* are unchanged.
ScdUpdateReplaces ==
    [][/\ \A n \in Members : \A d \in Snapshots(n) :
            ScdUpdate([x \in {n} |-> d]) =>
               /\ entries'[n] = d
               /\ \A j \in Members \ {n} :
                     entries'[j] = entries[j] /\ needinit'[j] = needinit[j]
       /\ \A f \in Outcomes("files"), o \in Outcomes("others") :
            LET out == [files |-> f, others |-> o] IN
              UpdateFromCanvas(out) =>
                 \A i \in Members :
                    IF i \in Warnings(out)
                    THEN entries'[i] = entries[i] /\ needinit'[i] = needinit[i]
                    ELSE entries'[i] = out[i]
      ]_vars

\* the pairs of dict d are all in dict e
Contains(e, d) == \A k \in DOMAIN d : k \in DOMAIN e /\ e[k] = d[k]

\* C14: update_from_canvas does not raise when an updater raises an
\* exception, and every member whose registered updater returns a dict is
\* loaded with that dict, also when the updater of a member earlier or
\* later in the iteration order raises.
UpdaterFailureIsolated ==
    scenario = "coursedata" =>
       \A f \in Outcomes("files"), o \in Outcomes("others") :
          LET out == [files |-> f, others |-> o] IN
            /\ UfcResult(out) = ReturnsNone
            /\ \A i \in Members :
                  (i \in updaters /\ ReturnsDict(out[i])) =>
                     /\ ~UfcNeedinit(out)[i]
                     /\ Contains(UfcEntries(out)[i], out[i])

\* the updater of files, first in the order, raised and others, after it,
\* was loaded with the non-empty dict its updater returned
UpdaterFailureWitness ==
    /\ scenario = "coursedata"
    /\ last = UfcOf({"files"}, {"files"})
    /\ ~needinit["others"]
    /\ entries["others"] # EmptyMap
    /\ needinit["files"]

\* C15: in update_from_canvas a member without a registered updater, or
\* whose updater returns None or raises, keeps its entries and its
\* loaded/unloaded flag, and a warning naming it is logged.
SkippedMemberUntouched ==
    scenario = "coursedata" =>
       \A f \in Outcomes("files"), o \in Outcomes("others") :
          LET out == [files |-> f, others |-> o] IN
            \A i \in Members :
               (i \notin updaters \/ out[i] = ReturnsNone \/ out[i] = Raises) =>
                  /\ UfcEntries(out)[i] = entries[i]
                  /\ UfcNeedinit(out)[i] = needinit[i]
                  /\ i \in Warnings(out)

\* files, loaded and not empty, was skipped because its updater raised, and
\* others because it has no updater
SkippedMemberWitness ==
    /\ scenario = "coursedata"
    /\ last = UfcOf({"files"}, Members)
    /\ "others" \notin updaters
    /\ ~needinit["files"]
    /\ entries["files"] # EmptyMap

\* a dict as the value it denotes: every reference replaced by its content
RECURSIVE Plain(_, _)
Plain(e, h) ==
    [k \in DOMAIN e |->
        IF IsDictValue(e[k]) THEN [map |-> Plain(Content(h, e[k]), h)] ELSE e[k]]

\* the dict that has the given items
DictOf(items) ==
    [k \in {items[n][1] : n \in 1..Len(items)} |->
        items[CHOOSE n \in 1..Len(items) : items[n][1] = k][2]]

\* the reference recursive merge of two dicts
RECURSIVE RefMerge(_, _)
RefMerge(s, o) ==
    [k \in DOMAIN s \cup DOMAIN o |->
        IF k \notin DOMAIN o THEN s[k]
        ELSE IF k \in DOMAIN s /\ "map" \in DOMAIN s[k] /\ "map" \in DOMAIN o[k]
             THEN [map |-> RefMerge(s[k].map, o[k].map)]
             ELSE o[k]]

\* C20: update(other) loads the map if it is unloaded and leaves it equal to
\* the reference recursive merge of its entries with other: dicts under the
\* same key are merged recursively, any other value of other overwrites,
\* and the keys that are not in other keep their values.
UpdateIsRecursiveMerge ==
    [][\A o \in Others :
         Update("a", o) =>
            /\ ~needinit'["a"]
            /\ Plain(entries'["a"], heap') =
                  RefMerge(Plain(EnsureLoaded("a"), heap), Plain(DictOf(o), heap))
      ]_vars

\* C36: no sequence of get, set, update, save and reset changes the default
\* given to the SavedDict, the dicts inside it included: the default is what
\* it was at construction, and after reset() without a storage file the
\* next access finds the map equal to the default as it was given.
DefaultUnchanged ==
    /\ Plain(Default("a"), heap) = Plain(Default("a"), HeapInit)
    /\ (needinit["a"] /\ disk[SDFile] = NoFile) =>
          Plain(EnsureLoaded("a"), heap) = Plain(Default("a"), HeapInit)

\* C21: loading a map from a storage file whose JSON content is not an
\* object (an array, empty, of pairs or other, a string, a number, null)
\* raises an error, and the map stays as it was: unloaded and with the
\* entries it had. This holds for SavedDict.load and for LazyDict._load.
NonObjectFails ==
    [][/\ \A i \in SDObjs :
            (/\ LoadFile(i)
             /\ disk[Filename(i)] # NoFile
             /\ ~IsObject(disk[Filename(i)])) =>
               /\ last' = LoadOf(i, TRUE)
               /\ needinit'[i] = needinit[i]
               /\ entries'[i] = entries[i]
       /\ \A h \in 1..Len(scopes) :
            (/\ Access(h, "files")
             /\ "files" \notin DOMAIN scopes[h].dict
             /\ cdisk[cwd]["files"] # NoFile
             /\ ~IsObject(cdisk[cwd]["files"])) =>
               /\ clast' = GetOf(AssertionError)
               /\ scopes' = scopes
      ]_vars

-----------------------------------------------------------------------------
(* Properties of the scoped cache                                          *)

\* the innermost open with-block
Innermost == scopes[Len(scopes)]

\* the entries of the file of namespace n in directory dir, {} without file
FileEntries(dir, n) ==
    IF cdisk[dir][n] # NoFile THEN JsonLoad(cdisk[dir][n]) ELSE EmptyMap

\* the entries of namespace n as the handle of the h-th with-block of sc
\* shows them
EntriesSeen(sc, h, n) ==
    IF n \in DOMAIN sc[h].dict THEN sc[h].dict[n] ELSE LazyLoad(n)

\* C11: whenever a with-block is left, by return or by an exception of the
\* body, save_state has written every loaded member of its cache to the
\* file in its root, the working directory is the one from before the entry,
\* and an exception of the body is raised again.
ExitCleansUp ==
    [][\A raised \in BOOLEAN :
         Exit(raised) =>
            /\ \A n \in DOMAIN Innermost.dict :
                  cdisk'[Innermost.root][n] = JsonDump(Innermost.dict[n])
            /\ cwd' = Innermost.cwd
            /\ raised => clast' = ExitOf(Raises)
      ]_vars

\* a with-block over directory A, entered from home, was left by an
\* exception: the program is back in home and the stored entry is in A
ExitCleansUpWitness ==
    /\ usage = "nesting"
    /\ clast = ExitOf(Raises)
    /\ scopes = <<>>
    /\ cwd = "home"
    /\ cdisk["A"]["files"] # NoFile
    /\ FileEntries("A", "files") # EmptyMap
    /\ cdisk["home"]["files"] = NoFile

\* C12: the list cfs holds the caches of the open with-blocks in the order
\* of entry, whether inner blocks were left by return or by exception; its
\* last element is the cache of the innermost block, the only one
\* update_canvasfs and result_to_canvasfs change; leaving a block gives the
\* list it was before the block was entered.
StackDiscipline ==
    /\ [](/\ cfs = [i \in 1..Len(scopes) |-> i]
          /\ cfs # <<>> => Top(cfs) = Len(scopes))
    /\ [][/\ clast'.op \in {"update_canvasfs", "result_to_canvasfs"} =>
               /\ cfs' = cfs
               /\ Len(scopes') = Len(scopes)
               /\ \A i \in 1..(Len(scopes) - 1) : scopes'[i] = scopes[i]
          /\ \A raised \in BOOLEAN : Exit(raised) => cfs' = Innermost.stack
         ]_vars

\* the inner of two nested with-blocks was left by an exception and the
\* outer one is still open, with a cache that differs from a new one
StackDisciplineWitness ==
    /\ usage = "nesting"
    /\ clast = ExitOf(Raises)
    /\ Len(scopes) = 1
    /\ cfs = <<1>>
    /\ scopes[1].root = "A"
    /\ "files" \in DOMAIN scopes[1].dict

\* C13: an identifier stored in a namespace through the cache of a
\* with-block over root is added to the entries the file of that namespace
\* in root held when the namespace was first accessed; when the block is
\* left the file in root holds the entries of the cache; and resolve in a
\* block over root returns what that file holds.
PersistsAcrossScopes ==
    [][/\ \A h \in 1..Len(scopes) : \A n \in ItemNamespaces : \A k \in CKeys(n) :
            /\ \A v \in CValues(n, k) :
                  Store(h, n, k, v) =>
                     /\ scopes'[h].dict[n][k] = v
                     /\ n \notin DOMAIN scopes[h].dict =>
                           scopes'[h].dict[n] =
                              DictSet(FileEntries(scopes[h].root, n), k, v)
            /\ (n \notin DOMAIN scopes[h].dict /\ Resolve(h, n, k)) =>
                  clast' = ResolveOf(CfsLookup(FileEntries(scopes[h].root, n), k))
       /\ \A raised \in BOOLEAN :
            Exit(raised) =>
               \A n \in DOMAIN Innermost.dict :
                  /\ cdisk'[Innermost.root][n] # NoFile
                  /\ JsonLoad(cdisk'[Innermost.root][n]) = Innermost.dict[n]
      ]_vars

\* C27: however with-blocks over different roots are nested, a member of a
\* cache is loaded from the file in the root of its own with-block, at
\* whatever time it is first read (also while an inner block over another
\* root is open), and save_state of a cache writes the files in the root of
\* its own with-block and no file of another directory.
MembersUseOwnRoot ==
    [][\A h \in 1..Len(scopes) :
         /\ \A n \in ItemNamespaces :
               (/\ clast'.op = "resolve"
                /\ Len(scopes') = Len(scopes)
                /\ n \notin DOMAIN scopes[h].dict
                /\ n \in DOMAIN scopes'[h].dict) =>
                  scopes'[h].dict[n] = FileEntries(scopes[h].root, n)
         /\ SaveState(h) =>
               /\ \A n \in DOMAIN scopes[h].dict :
                     cdisk'[scopes[h].root][n] = JsonDump(scopes[h].dict[n])
               /\ \A dir \in Dirs \ {scopes[h].root} : cdisk'[dir] = cdisk[dir]
      ]_vars

\* C30: a function wrapped by result_to_canvasfs that is called while no
\* with-block is open ends with the IndexError of the usage guard before the
\* wrapped function was called.
WrappedFailsBeforeCall ==
    [][(cfs = <<>> /\ clast'.op = "result_to_canvasfs") =>
          clast' = RtcOf(IndexError, 0)
      ]_vars

\* C31: in an open with-block, a call of a wrapped function that returns a
\* value with key k sets entry k of the chosen namespace of the cache on top
\* of the stack to the identifier of the value, leaves every other key, every
\* other namespace, every other cache and every file as it is, and returns
\* the value; if the wrapped function raises, no cache changes.
WrappedStoresResult ==
    [][(clast'.op = "result_to_canvasfs" /\ cfs # <<>>) =>
          \A n \in ItemNamespaces : \A k \in CKeys(n) :
             \A fout \in CValues(n, k) \cup {Raises} :
                ResultToCanvasfs(n, k, fout) =>
                   IF fout = Raises
                   THEN scopes' = scopes /\ cdisk' = cdisk
                   ELSE LET top == Top(cfs)
                            before ==
                               IF n \in DOMAIN scopes[top].dict
                               THEN scopes[top].dict[n]
                               ELSE FileEntries(scopes[top].root, n)
                        IN
                          /\ clast'.result = Returned(Response(fout))
                          /\ scopes'[top].dict[n] = DictSet(before, k, fout)
                          /\ \A m \in Namespaces \ {n} :
                                /\ m \in DOMAIN scopes'[top].dict
                                      <=> m \in DOMAIN scopes[top].dict
                                /\ m \in DOMAIN scopes[top].dict =>
                                      scopes'[top].dict[m] = scopes[top].dict[m]
                          /\ \A h \in 1..Len(scopes) \ {top} :
                                scopes'[h] = scopes[h]
                          /\ cdisk' = cdisk
      ]_vars

\* a wrapped function returned in the inner of two nested with-blocks whose
\* namespace held another key: both keys are in the cache of the inner
\* block, and the cache of the outer block has no member
WrappedStoresResultWitness ==
    /\ clast.op = "result_to_canvasfs"
    /\ "val" \in DOMAIN clast.result
    /\ Len(scopes) = 2
    /\ scopes[1].dict = NoMembers
    /\ "files" \in DOMAIN scopes[2].dict
    /\ scopes[2].dict["files"] # EmptyMap

\* C22: after reset() of a SavedDict, of a SavedCourseData or of a CanvasFS
\* the next get of a member returns what its storage file holds at that
\* time (for a cache: the file in the root of its with-block), or what the
\* default, or the empty dict, holds when there is no file: the writes made
\* since the last save are lost.
ResetReloads ==
    [][/\ \A i \in Objs :
            (Reset(i) \/ (ScdReset /\ i \in Members)) =>
               \A k \in KeysOf(i) :
                  GetResult(i, k)' =
                     IF k \in DOMAIN FileData(i)
                     THEN Returned(FileData(i)[k])
                     ELSE KeyError
       /\ \A h \in 1..Len(scopes) :
            CfsReset(h) =>
               \A n \in ItemNamespaces : \A k \in CKeys(n) :
                  ResolveResult(h, n, k)' =
                     CfsLookup(FileEntries(scopes[h].root, n), k)
      ]_vars

\* C16: CanvasFS.update(name=value) with a member name and a dict leaves
\* that member loaded with exactly the dict; the other members, and every
\* member when the name is no member or the value no dict, keep entries
\* and loaded state; no file changes.
CfsUpdateReplaces ==
    [][clast'.op = "update" =>
       \A h \in 1..Len(scopes) : \A n \in UpdateNames : \A d \in UpdateValues(n) :
         CfsUpdate(h, [x \in {n} |-> d]) =>
            /\ cdisk' = cdisk
            /\ IF n \in Namespaces /\ IsDict(d)
               THEN /\ n \in DOMAIN scopes'[h].dict
                    /\ scopes'[h].dict[n] = d
                    /\ \A m \in Namespaces \ {n} :
                          /\ m \in DOMAIN scopes'[h].dict <=> m \in DOMAIN scopes[h].dict
                          /\ m \in DOMAIN scopes[h].dict =>
                                scopes'[h].dict[m] = scopes[h].dict[m]
               ELSE scopes' = scopes
      ]_vars

\* update(files={"/img.svg": 1}) replaced a cache that held /a/b.pdf, which
\* the file written before still holds
CfsUpdateWitness ==
    /\ usage = "sequence"
    /\ clast = UpdateOf({"files"})
    /\ Len(scopes) = 1
    /\ "files" \in DOMAIN scopes[1].dict
    /\ DOMAIN scopes[1].dict["files"] = {"/img.svg"}
    /\ "quizzes" \in DOMAIN scopes[1].dict
    /\ "/a/b.pdf" \in DOMAIN FileEntries("home", "files")

\* C17: when update_canvasfs succeeds, each of the three members of the
\* cache of the innermost with-block is exactly the dict its get_canvas_...
\* call returned, and the caches of the enclosing blocks are unchanged.
UpdateCanvasfsReplaces ==
    /\ [](cfs # <<>> =>
            \A out \in UcfsOutcomes :
               UcfsRun(out).result = ReturnsNone =>
                  \A n \in Namespaces :
                     /\ n \in DOMAIN UcfsRun(out).dict
                     /\ UcfsRun(out).dict[n] = out[n])
    /\ [][clast' = UcfsCall(ReturnsNone, Len(CfsFields)) =>
            /\ \A i \in 1..(Len(scopes) - 1) : scopes'[i] = scopes[i]
            /\ \A n \in Namespaces :
                  /\ n \in DOMAIN scopes'[Len(scopes)].dict
                  /\ scopes'[Len(scopes)].dict[n] \in CSnapshots(n)
         ]_vars

\* update_canvasfs succeeded in the inner of two with-blocks, and the cache
\* of the outer block has files only
UpdateCanvasfsWitness ==
    /\ usage = "nesting"
    /\ clast = UcfsCall(ReturnsNone, Len(CfsFields))
    /\ Len(scopes) = 2
    /\ DOMAIN scopes[1].dict = {"files"}
    /\ DOMAIN scopes[2].dict = Namespaces

\* C34: when a remote call fails during update_canvasfs in an open
\* with-block, the failure reaches the caller, the calls after it are not
\* made, and each namespace of the cache on top of the stack is either the
\* snapshot just fetched (the namespaces before the failing one, in the order
\* files, assignments, quizzes) or what it was before (the failing one and
\* those after it, a namespace not yet loaded staying so); no other cache and
\* no file changes.
FailureKeepsWholeNamespaces ==
    [][(cfs # <<>> /\ clast'.op = "update_canvasfs"
                  /\ clast'.result # ReturnsNone) =>
          /\ clast'.result = RemoteFailure
          /\ clast'.calls \in 1..Len(CfsFields)
          /\ cdisk' = cdisk
          /\ cfs' = cfs
          /\ \A h \in 1..Len(scopes) \ {Top(cfs)} : scopes'[h] = scopes[h]
          /\ LET d == scopes[Top(cfs)].dict
                 e == scopes'[Top(cfs)].dict
             IN
               \A i \in 1..Len(CfsFields) :
                  LET n == CfsFields[i] IN
                    IF i < clast'.calls
                    THEN n \in DOMAIN e /\ e[n] \in CSnapshots(n)
                    ELSE /\ n \in DOMAIN e <=> n \in DOMAIN d
                         /\ n \in DOMAIN d => e[n] = d[n]
      ]_vars

\* the listing of the assignments failed after the files were replaced by
\* their snapshot: the cache holds the new files and no other member
FailureKeepsWholeNamespacesWitness ==
    /\ clast = UcfsCall(RemoteFailure, 2)
    /\ Len(scopes) = 1
    /\ DOMAIN scopes[1].dict = {"files"}
    /\ scopes[1].dict["files"] # EmptyMap
    /\ cdisk["home"]["files"] = NoFile

\* C18: update_canvasfs outside every with-block raises IndexError before
\* any get_canvas_... call, and changes no cache, no file and not the list.
NoScopeIsUsageError ==
    [][(cfs = <<>> /\ clast'.op = "update_canvasfs") =>
          /\ clast' = UcfsCall(IndexError, 0)
          /\ UNCHANGED <<cfs, scopes, cdisk, cwd>>
      ]_vars

\* update_canvasfs was called after the last with-block was left; its file
\* is on disk
NoScopeWitness ==
    /\ clast = UcfsCall(IndexError, 0)
    /\ cfs = <<>>
    /\ cdisk["home"]["quizzes"] # NoFile

\* C19: resolve(namespace, path) returns the identifier stored for path in
\* the namespace, or raises KeyError when there is none, and leaves the
\* entries of every namespace, and every file, as they are.
ResolveReturnsStored ==
    /\ [](\A h \in 1..Len(scopes) : \A n \in ItemNamespaces : \A k \in CKeys(n) :
            ResolveResult(h, n, k) =
               IF k \in DOMAIN EntriesSeen(scopes, h, n)
               THEN Returned(EntriesSeen(scopes, h, n)[k])
               ELSE KeyError)
    /\ [][clast'.op = "resolve" =>
            /\ UNCHANGED <<cdisk, cwd, cfs>>
            /\ \A h \in 1..Len(scopes) : \A n \in Namespaces :
                  EntriesSeen(scopes', h, n) = EntriesSeen(scopes, h, n)
         ]_vars

\* resolve found identifier 2 in a namespace it had to load from the file
ResolveWitness ==
    /\ usage = "sequence"
    /\ clast = ResolveOf(Returned([int |-> 2]))
    /\ Len(scopes) = 1
    /\ DOMAIN scopes[1].dict = {"files"}
    /\ scopes[1].dict["files"] = FileEntries("home", "files")
    /\ DOMAIN scopes[1].dict["files"] = CKeys("files")

-----------------------------------------------------------------------------
(* Properties of the listings                                              *)

\* the dict that maps the key of every item to the id of the last item
\* that has this key
LastIds(keys, ids) ==
    [k \in {keys[n] : n \in 1..Len(keys)} |->
        [int |-> ids[CHOOSE n \in 1..Len(keys) :
                        /\ keys[n] = k
                        /\ \A m \in (n + 1)..Len(keys) : keys[m] # k]]]

\* how often group id g was looked up remotely
TimesAsked(g) == Cardinality({n \in 1..Len(asked) : asked[n] = g})

\* C23: in one run of get_canvas_assignments the remote lookup of the group
\* name is made exactly once for every group id that occurs among the
\* assignments, however many assignments share a group, and the dict maps
\* "{group name}/{assignment name}" to the id of the assignment.
GroupLookedUpOnce ==
    job = "assignments" =>
       /\ \A n \in 1..Len(remote) :
             TimesAsked(remote[n].assignment_group_id) =
                IF \E m \in 1..(pos - 1) :
                      remote[m].assignment_group_id = remote[n].assignment_group_id
                THEN 1
                ELSE 0
       /\ pos > Len(remote) =>
             built = LastIds(
                 [n \in 1..Len(remote) |->
                     FormatKey(GroupName(remote[n].assignment_group_id),
                               remote[n].name)],
                 [n \in 1..Len(remote) |-> remote[n].id])

\* the files of the non-empty folders, in the order of the enumeration
RECURSIVE FilesListed(_)
FilesListed(folders) ==
    IF folders = <<>>
    THEN <<>>
    ELSE [n \in 1..Len(Head(folders).files) |->
             [folder |-> Head(folders).full_name,
              file |-> Head(folders).files[n]]]
         \o FilesListed(Tail(folders))

\* C24: get_canvas_files maps every file of every non-empty folder to the
\* key made of the full name of the folder without its leading
\* "course files", of "/" and of the display name; what follows the leading
\* "course files" in the name of the folder is in the key as it is.
FileKeysStripRoot ==
    (job = "files" /\ pos > Len(remote)) =>
       LET listed == FilesListed(remote) IN
         built = LastIds(
             [n \in 1..Len(listed) |->
                 FormatKey(ReplaceLeading(listed[n].folder, RootPrefix),
                           listed[n].file.display_name)],
             [n \in 1..Len(listed) |-> listed[n].file.id])

\* C33: get_canvas_files lists the files of the folders whose file count is
\* greater than zero, once each and in order, and of no other folder: a
\* folder with zero files causes no listing call and adds no key.
EmptyFoldersSkipped ==
    job = "files" =>
       /\ asked = SelectSeq([i \in 1..(pos - 1) |-> i],
                            LAMBDA i : remote[i].files_count > 0)
       /\ (\A i \in 1..(pos - 1) : remote[i].files_count = 0) =>
             built = EmptyMap

\* the listing is done: the first folder has no file and was not listed,
\* the second has one and was
EmptyFoldersSkippedWitness ==
    /\ job = "files"
    /\ pos > Len(remote)
    /\ Len(remote) = 2
    /\ remote[1].files_count = 0
    /\ remote[2].files_count > 0
    /\ asked = <<2>>
    /\ built # EmptyMap

-----------------------------------------------------------------------------
(* Properties of del_assignments                                           *)

\* C37: del_assignments calls delete for an assignment only if the click
\* that came while the prompt named that assignment carried the answer Yes
\* and the assignment has no submitted submissions; the assignments are
\* prompted one at a time in the order of the listing, every answer is
\* applied to the assignment the prompt names, no assignment is handled
\* twice, and a click after the last prompt changes nothing.
DeletesOnlyConfirmed ==
    /\ [](/\ \A n \in 1..Len(deleted) :
                \E i \in 1..Len(answers) :
                   /\ exs[i].id = deleted[n]
                   /\ ~exs[i].has_submitted_submissions
                   /\ answers[i] = [prompt |-> Shown(exs[i]), ans |-> "Yes"]
          /\ \A m, n \in 1..Len(deleted) : deleted[m] = deleted[n] => m = n
          /\ Len(answers) <= Len(exs)
          /\ \A i \in 1..Len(answers) : answers[i].prompt = Shown(exs[i])
          /\ gen = "suspended" =>
                /\ at = Len(answers) + 1
                /\ prompt = Shown(exs[at])
                /\ ~closed)
    /\ [][gen = "finished" =>
             /\ gen' = gen
             /\ deleted' = deleted
             /\ answers' = answers
             /\ prompt' = prompt
         ]_vars

\* three assignments were listed and answered Yes, No, Yes; the first has
\* submissions: only the third was deleted, and a later click came
DeletesOnlyConfirmedWitness ==
    /\ Len(exs) = 3
    /\ exs[1].has_submitted_submissions
    /\ ~exs[2].has_submitted_submissions
    /\ ~exs[3].has_submitted_submissions
    /\ Len(answers) = 3
    /\ answers[1].ans = "Yes" /\ answers[2].ans = "No" /\ answers[3].ans = "Yes"
    /\ deleted = <<3>>
    /\ closed
    /\ late > 0

-----------------------------------------------------------------------------
(* Properties of the Section attributes and of the converter               *)

\* C25: Section.get(attr, default) returns the value of the Section's own
\* attribute when the Section has the attribute, which for a key of the
\* override record (in its normal form, and not one of date, serial, week,
\* header, which __init__ sets afterwards) is the value of the record;
\* otherwise the value of the header's attribute; otherwise default; and
\* Section[attr] is Section.get(attr), with the default None.
SectionGetFallsBack ==
    got.op \in {"get", "getitem"} =>
       /\ HasAttr(sect.dict, "Section", got.attr) =>
             got.result = GetAttr(sect.dict, "Section", got.attr)
       /\ sect.record # None =>
             \A k \in DOMAIN sect.record :
                (NormalizeKey(k) = got.attr
                 /\ got.attr \notin {"date", "serial", "week", "header"}) =>
                   got.result = sect.record[k]
       /\ (~HasAttr(sect.dict, "Section", got.attr)
           /\ HasAttr(hattrs, "Header", got.attr)) =>
             got.result = GetAttr(hattrs, "Header", got.attr)
       /\ (~HasAttr(sect.dict, "Section", got.attr)
           /\ ~HasAttr(hattrs, "Header", got.attr)) =>
             got.result = got.default
       /\ got.op = "getitem" => got.default = None

\* the header and the override record both give exs (the record under the
\* key Feladatok), the header alone gives title, and exs was looked up: the
\* value of the record was returned
SectionGetWitness ==
    /\ got.op = "get"
    /\ got.attr = "exs"
    /\ got.result = [str |-> "S"]
    /\ sect.record # None
    /\ DOMAIN sect.record = {"Feladatok"}
    /\ DOMAIN hattrs = {"exs", "title"}
    /\ hattrs["exs"] = [str |-> "H"]

\* C26: when the converter process ends with a return code other than 0,
\* run_cmd_on_text (and pandoc_with_options, which runs it) logs the command
\* and the decoded stderr as errors and returns the empty string, raising
\* nothing; when it ends with 0 the decoded stdout is returned.
FailureGivesEmpty ==
    proc # NoProcess =>
       /\ proc.returncode # 0 =>
             /\ pret = Returned(<<>>)
             /\ plog # <<>>
             /\ plog[1] = LogRecord("error", "cmd")
             /\ ~Utf8Decode(proc.stderr).raised =>
                   plog = <<LogRecord("error", "cmd"),
                            LogRecord("error", Utf8Decode(proc.stderr).text)>>
       /\ (proc.returncode = 0 /\ ~Utf8Decode(proc.stdout).raised) =>
             pret = Returned(Utf8Decode(proc.stdout).text)

-----------------------------------------------------------------------------
(* section.py: the schedule generator                                      *)

\* first_section of the headers considered (two different weekdays)
FirstDates == {0, 2}

\* the dates a header may list as breaks: the weekly slots after
\* first_section (first_section itself included) and one date off the grid
BreakDates(first) == {first + Days7 * i : i \in 0..MaxWeeks} \cup {first + 10}

\* the dates a header may give as last_section
LastDates(first) ==
    {first - 1} \cup {first + Days7 * i + o : i \in 0..MaxWeeks, o \in {0, 3}}

\* no loop of the model runs longer than this many 7-day steps; the guard
\* that uses it never blocks the code's own behaviour (see CapNotReached)
StepCap == MaxWeeks + MaxRec + 2

\* the body of the loop of Header.next_week up to the test
NextWeekStepFrozen(d, w) == <<d, w + 1>>
NextWeekStep(d, w) == <<d + Days7, w + 1>>

\* the test that ends the loop of Header.next_week
IsBreak(h, d) == d \in h.breaks

\* the while condition of data_iter
WhileCondOffByOne(h, d) == ~h.hasLast \/ d - Days7 <= h.last_section
WhileCond(h, d) == ~h.hasLast \/ d <= h.last_section

\* the arguments data_iter passes to header.next_week
NextWeekArgs(d, s, w) == <<d, s>>

\* data_iter after header.next_week returned <<d, w>>: date, week = ...; serial += 1
ResumeSerialFromWeek(d, w, s) == [date |-> d, week |-> w, serial |-> w]
Resume(d, w, s) == [date |-> d, week |-> w, serial |-> s + 1]

\* the dict data_iter yields, as Section.__init__ stores it
Yielded(d, s, w) == [date |-> d, serial |-> s, week |-> w]

InitSchedule ==
    /\ \E f \in FirstDates, hl \in BOOLEAN :
         \E l \in LastDates(f), b \in SUBSET BreakDates(f) :
            /\ hl \/ l = f - 1
            /\ header = [first_section |-> f, hasLast |-> hl,
                         last_section |-> l, breaks |-> b]
            \* a generator without last_section is only stopped by the end
            \* of the records, so an endless consumer needs a last_section
            /\ \E n \in 0..MaxRec, e \in BOOLEAN :
                  /\ e => (hl /\ n = 0)
                  /\ lst = [n |-> n, endless |-> e, total |-> n]
    /\ pc = "zip"
    /\ gstate = "new"
    /\ date = 0
    /\ serial = 0
    /\ week = 0
    /\ nw_date = 0
    /\ nw_week = 0
    /\ sections = <<>>
    /\ MapsIdle
    /\ CanvasIdle
    /\ OthersIdle

\* zip asks its first iterable, the records, first: it ends when none is left
ZipEndsEarly(l) == ~l.endless /\ l.n <= 1
ZipEnds(l) == ~l.endless /\ l.n = 0

\* zip(lst, data_iter(header)) asks for the next pair: first a record, then,
\* if there is one, the generator is started or resumed after its yield
ZipNext ==
    /\ pc = "zip"
    /\ IF ZipEnds(lst)
       THEN /\ pc' = "done"
            /\ UNCHANGED <<lst, gstate, date, serial, week, nw_date, nw_week>>
       ELSE /\ lst' = IF lst.endless THEN lst ELSE [lst EXCEPT !.n = @ - 1]
            /\ IF gstate = "new"
               THEN /\ date' = header.first_section
                    /\ serial' = 1
                    /\ week' = 1
                    /\ pc' = "test"
                    /\ UNCHANGED <<gstate, nw_date, nw_week>>
               ELSE /\ nw_date' = NextWeekArgs(date, serial, week)[1]
                    /\ nw_week' = NextWeekArgs(date, serial, week)[2]
                    /\ pc' = "next_week"
                    /\ UNCHANGED <<gstate, date, serial, week>>
    /\ UNCHANGED <<header, sections, mvars, cvars, ovars>>

\* one iteration of the loop of Header.next_week; on break, data_iter takes
\* the result and increments serial
NextWeekIter ==
    /\ pc = "next_week"
    /\ nw_week < StepCap
    /\ LET nw == NextWeekStep(nw_date, nw_week) IN
         /\ nw_date' = nw[1]
         /\ nw_week' = nw[2]
         /\ IF ~IsBreak(header, nw[1])
            THEN LET r == Resume(nw[1], nw[2], serial) IN
                   /\ date' = r.date
                   /\ week' = r.week
                   /\ serial' = r.serial
                   /\ pc' = "test"
            ELSE UNCHANGED <<date, week, serial, pc>>
    /\ UNCHANGED <<header, lst, gstate, sections, mvars, cvars, ovars>>

\* data_iter evaluates its while condition: it yields, and read_section
\* builds the Section, or it returns, which ends zip
WhileTest ==
    /\ pc = "test"
    /\ IF WhileCond(header, date)
       THEN /\ sections' = Append(sections, Yielded(date, serial, week))
            /\ gstate' = "suspended"
            /\ pc' = "zip"
       ELSE /\ gstate' = "finished"
            /\ pc' = "done"
            /\ UNCHANGED sections
    /\ UNCHANGED <<header, lst, date, serial, week, nw_date, nw_week, mvars, cvars, ovars>>

NextSchedule == ZipNext \/ NextWeekIter \/ WhileTest

SpecSchedule == InitSchedule /\ [][NextSchedule]_vars

\* the code is sequential and runs on as long as it can take a step
FairSchedule == SpecSchedule /\ WF_vars(NextSchedule)

\* the step cap never stops a loop the code would continue
CapNotReached == pc = "next_week" => nw_week < StepCap

TypeSchedule ==
    /\ pc \in {"zip", "test", "next_week", "done"}
    /\ gstate \in {"new", "suspended", "finished"}
    /\ header.first_section \in FirstDates
    /\ header.breaks \subseteq BreakDates(header.first_section)

-----------------------------------------------------------------------------
(* Properties of the schedule generator                                    *)

\* the number of 7-day steps from first_section to date d
StepsFromFirst(d) == (d - header.first_section) \div Days7

\* the dates of the weekly grid strictly between two dates
SlotsBetween(d1, d2) ==
    {d \in (d1 + 1)..(d2 - 1) : (d - header.first_section) % Days7 = 0}

\* some break week was skipped between two consecutive Sections
SkippedBreak ==
    \E i \in 1..(Len(sections) - 1) :
        sections[i + 1].date - sections[i].date > Days7

\* C6: every Section's week counts every 7-day step since first_section,
\* skipped break weeks included: week = 1 + (date - first_section) / 7.
WeekCountsEveryStep ==
    \A i \in 1..Len(sections) :
        sections[i].week = 1 + StepsFromFirst(sections[i].date)

\* C7: the dates of the Sections increase strictly, lie on the weekly grid
\* of first_section, none of them (the first included) is a break date, and
\* each next date is the earliest later slot that is not a break.
DatesSkipBreaks ==
    /\ \A i \in 1..Len(sections) :
         /\ (sections[i].date - header.first_section) % Days7 = 0
         /\ sections[i].date \notin header.breaks
    /\ \A i \in 1..(Len(sections) - 1) :
         /\ sections[i].date < sections[i + 1].date
         /\ SlotsBetween(sections[i].date, sections[i + 1].date)
               \subseteq header.breaks

\* the dates data_iter can yield for the header: first_section and the
\* later dates of the weekly grid that are no breaks, up to last_section
EmittableDates ==
    {d \in {header.first_section + Days7 * i : i \in 0..(StepCap + 1)} :
        /\ header.hasLast => d <= header.last_section
        /\ d = header.first_section \/ d \notin header.breaks}
Rank(d) == Cardinality({e \in EmittableDates : e <= d})
Min(a, b) == IF a <= b THEN a ELSE b

\* C32: read_section pairs the i-th record with the i-th date of the
\* generator, in order; when it ends, the number of Sections is the smaller
\* of the number of records and the number of dates the generator can
\* yield; without last_section the generator never ends by itself and there
\* is one Section per record.
SectionsPairRecords ==
    /\ \A i \in 1..Len(sections) :
          sections[i].date \in EmittableDates /\ Rank(sections[i].date) = i
    /\ ~lst.endless =>
          /\ pc = "zip" => lst.total - lst.n = Len(sections)
          /\ pc \in {"test", "next_week"} => lst.total - lst.n = Len(sections) + 1
    /\ pc = "done" =>
          /\ lst.endless => Len(sections) = Cardinality(EmittableDates)
          /\ (~lst.endless /\ header.hasLast) =>
                Len(sections) = Min(lst.total, Cardinality(EmittableDates))
          /\ ~header.hasLast =>
                (gstate # "finished" /\ Len(sections) = lst.total)

\* read_section ended because the generator did, with records left over,
\* after two Sections and a skipped break; and, for a header without
\* last_section, it ended with one Section for each of the records
SectionsPairRecordsWitness ==
    /\ pc = "done"
    /\ gstate = "finished"
    /\ lst.total > Len(sections)
    /\ Len(sections) >= 2
    /\ SkippedBreak

\* C8: the i-th Section has serial i, however many break weeks were skipped.
SerialIsPosition ==
    \A i \in 1..Len(sections) : sections[i].serial = i

\* three Sections were built and a break week was skipped on the way
SerialWitness == Len(sections) >= 3 /\ SkippedBreak

\* C9: with a last_section no Section has a later date, and none is built
\* at all when first_section is later than last_section.
NoSectionAfterLast ==
    header.hasLast =>
        /\ \A i \in 1..Len(sections) : sections[i].date <= header.last_section
        /\ header.first_section > header.last_section => sections = <<>>

\* the generator stopped at last_section although records were left
StoppedAtLastWitness ==
    /\ header.hasLast
    /\ gstate = "finished"
    /\ Len(sections) >= 1
    /\ ~lst.endless /\ lst.n > 0

\* C10: with a last_section (and the finite break list of a header) the
\* generator finishes even for a consumer that never stops asking, and the
\* search of next_week for a date that is no break always ends.
GeneratorTerminates ==
    /\ (header.hasLast /\ lst.endless) ~> (gstate = "finished")
    /\ (pc = "next_week") ~> (pc = "test")

\* an endless consumer saw the generator finish after skipping a break
TerminatedWitness ==
    /\ header.hasLast /\ lst.endless
    /\ gstate = "finished"
    /\ Len(sections) >= 2
    /\ SkippedBreak

=============================================================================
